---- MODULE Spec2Model ----
(***************************************************************************)
(* A model of the Stockfish engine supervisor of the chess-engine MCP      *)
(* service: one StockfishEngine instance (engine_wrapper.py), the child    *)
(* process it drives over stdin/stdout, and the EngineRegistry it is       *)
(* registered in (shutdown.py).                                            *)
(*                                                                         *)
(* The wrapper's methods are modelled step by step: one action per         *)
(* blocking call (a write to the child's stdin, one iteration of the read  *)
(* loop, wait, kill), so that the child, which runs concurrently, can act  *)
(* between any two of them.                                                *)
(***************************************************************************)
EXTENDS Naturals, Sequences, FiniteSets

\* Bounds of the model.
MaxCalls == 2      \* get_best_move exchanges started in one run
MaxInfo == 1       \* `info` lines the child writes before a `bestmove`
MaxOps == 4        \* registry operations one thread starts in one run
MaxConcOps == 1    \* of them, those a thread starts beside another thread
MaxSignals == 1    \* termination signals delivered in one run
MaxRepeats == 1    \* further signals delivered while a handler runs

AllThreads == {"t1", "t2"}

VARIABLES
    pc,          \* [thread -> position in the wrapper's code]
    op,          \* [thread -> public operation it is running]
    responses,   \* [thread -> the list _read_response is accumulating]
    exc,         \* [thread -> message of the exception _initialize_engine will raise]
    call,        \* [thread -> number of the get_best_move exchange it runs]
    result,      \* [thread -> outcome of the last operation it finished]
    process,     \* self.process: "None" or "Popen"
    constructed, \* the constructor has returned an instance to the callers
    registry,    \* EngineRegistry._engines, as the set of registered instances
    alive,       \* the child process is running (poll() is None)
    stdinOpen,   \* the child still reads its stdin (a write does not break)
    eof,         \* the child's stdout is at end-of-file
    sent,        \* every line written to the child's stdin, in order
    nproc,       \* how many of them the child has consumed
    todo,        \* lines the child has still to write for the command it is on
    out,         \* lines the child wrote to stdout that nobody has read yet
    ncalls,      \* get_best_move calls made so far
    killFailed,  \* a kill() request raised
    got,         \* first tokens of the lines read from the child so far
    ended,       \* [thread -> what ended its last read loop]
    broken,      \* a get_best_move failed after its position line was sent
    request,     \* the fen and move_history the callers pass to get_best_move
    stack,       \* [thread -> its call stack of registry and shutdown frames]
    proc,        \* [instance -> its self.process: "None" or "Popen"]
    run,         \* [instance -> its child process is running]
    quits,       \* [instance -> `quit` lines written to its child]
    fresh,       \* instances no constructor has returned or registered yet
    raised,      \* [thread -> exceptions that left an operation it called]
    nops,        \* [thread -> registry operations it has started]
    swept,       \* instances a finished shutdown_all has called stop() on
    sweepCalls,  \* [instance -> stop() calls made on it by shutdown_all]
    lastSweep,   \* [thread -> the last shutdown_all it finished]
    hooks,       \* times setup_signal_handlers() installed the handlers and the atexit hook
    globalEngine,\* main.py's module-level _engine: "None" or an instance
    phase,       \* "running", "atexit" (exit hooks run) or "exited"
    exitCode,    \* the exit code, once the process is on its way out
    exitBy,      \* what ended it: "signal", "normal", "error" or "" still
    exitAt,      \* where the main program was when it ended
    nsig,        \* termination signals delivered so far
    environ,     \* os.environ: ENGINE_PATH and ENGINE_OS
    system,      \* platform.system() of the host
    files,       \* [path -> what the file system holds there]
    resolved,    \* what the last _get_engine_path() call came to
    healthEngine,\* health_server.py's module-level _engine
    probe,       \* the last answer of the /health endpoint
    reply,       \* the last answer of an MCP tool
    lifeStops,   \* [instance -> stop() calls the lifespan made on it]
    nread,       \* lines _read_response has taken from the child's stdout so far
    ndeliv,      \* lines _read_response has returned to its callers so far
    frag,        \* the unterminated line at the end of the child's stdout, if any
    blocked,     \* the threads that are inside a readline() call that waits
    reqs         \* the signals stop() has sent to the child process, in order

vars == <<pc, op, responses, exc, call, result, process, constructed, registry,
          alive, stdinOpen, eof, sent, nproc, todo, out, ncalls, killFailed, got, ended,
          broken, request, stack, proc, run, quits, fresh, raised, nops, swept,
          sweepCalls, lastSweep, hooks, globalEngine, phase, exitCode, exitBy, exitAt,
          nsig, environ, system, files, resolved, healthEngine, probe, reply, lifeStops,
          nread, ndeliv, frag, blocked, reqs>>

threadVars == <<pc, op, responses, exc, call, result, got, ended, broken>>
\* What the steps of the wrapper's methods and of the child leave alone.
regVars == <<stack, proc, run, quits, fresh, raised, nops, swept, sweepCalls,
             lastSweep, lifeStops, hooks, globalEngine, phase, exitCode, exitBy, exitAt,
             nsig>>
\* The environment, the health endpoint and the MCP tools.
svcVars == <<environ, system, files, resolved, healthEngine, probe, reply>>
envVars == <<request, regVars, svcVars, reqs>>
\* The wrapper instance, its child and the registry.
coreVars == <<pc, op, responses, exc, call, result, process, constructed, alive,
              stdinOpen, eof, sent, nproc, todo, out, ncalls, got, ended, broken,
              request, registry, killFailed, nread, ndeliv, frag,
              blocked, reqs>>
\* What the steps of the registry and of the shutdown hooks leave alone.
wrapperVars == <<pc, op, responses, exc, call, result, process, constructed, alive,
                 stdinOpen, eof, sent, nproc, todo, out, ncalls, got, ended, broken,
                 request, svcVars, nread, ndeliv, frag, blocked,
                 reqs>>
childVars == <<alive, stdinOpen, eof, nproc, todo, out>>
\* The lines read and returned, and what readline() waits for.
ioVars == <<nread, ndeliv, frag, blocked>>

Self == "engine"   \* the one StockfishEngine instance of the model

----------------------------------------------------------------------------
\* UCI lines.  A line is its whitespace-separated tokens; `id` is the number
\* of the exchange whose `go` caused it (0 for the handshake), which the
\* program cannot see; `k` is the place of a line in the child's output, 0
\* until the child writes it.

Cmd(toks, n) == [toks |-> toks, id |-> n]
Line(toks, n) == [toks |-> toks, id |-> n, k |-> 0]

\* str.startswith(until) on a stripped line
StartsWith(line, until) == Len(line.toks) > 0 /\ line.toks[1] = until

\* any(r.startswith(prefix) for r in responses)
AnyStartsWith(rs, prefix) == \E i \in 1..Len(rs) : StartsWith(rs[i], prefix)

\* The arguments of get_best_move.  A FEN is the sequence of its six fields,
\* a move history is absent (None) or a list of UCI moves.
StartFen == <<"rnbqkbnr/pppppppp/8/8/8/8/PPPPPPPP/RNBQKBNR", "w", "KQkq", "-", "0", "1">>
E4Fen == <<"rnbqkbnr/pppppppp/8/8/4P3/8/PPPP1PPP/RNBQKBNR", "b", "KQkq", "e3", "0", "1">>
Request(f, g, h) == [fen |-> f, given |-> g, history |-> h]
Requests ==
    {Request(StartFen, FALSE, <<>>), Request(StartFen, TRUE, <<>>),
     Request(E4Fen, TRUE, <<"e2e4">>), Request(StartFen, TRUE, <<"e2e4", "e7e5">>)}

\* PositionCmd with the `moves` part appended whenever a history is given.
PositionCmdMovesIfGiven(r, n) ==
    Cmd(<<"position", "fen">> \o r.fen \o
        (IF r.given THEN <<"moves">> \o r.history ELSE <<>>), n)

\* position_cmd = f"position fen {fen}", and " moves " with the moves joined
\* by single spaces when move_history is truthy (neither None nor empty).
PositionCmd(r, n) ==
    Cmd(<<"position", "fen">> \o r.fen \o
        (IF r.given /\ r.history # <<>> THEN <<"moves">> \o r.history ELSE <<>>), n)
GoCmd(n) == Cmd(<<"go", "movetime", "3000">>, n)

\* The command each sending position of the code writes.
CommandAt(p, n) ==
    CASE p = "init_uci" -> Cmd(<<"uci">>, 0)
      [] p = "init_opt1" -> Cmd(<<"setoption", "name", "Hash", "value", "128">>, 0)
      [] p = "init_opt2" -> Cmd(<<"setoption", "name", "Threads", "value", "4">>, 0)
      [] p = "init_isready" -> Cmd(<<"isready">>, 0)
      [] p = "gbm_pos" -> PositionCmd(request, n)
      [] p = "gbm_go" -> GoCmd(n)
      [] OTHER -> Cmd(<<"quit">>, 0)

\* Where the code goes after a successful write.
AfterSend(p) ==
    CASE p = "init_uci" -> "init_uci_enter"
      [] p = "init_opt1" -> "init_opt2"
      [] p = "init_opt2" -> "init_isready"
      [] p = "init_isready" -> "init_ready_enter"
      [] p = "gbm_pos" -> "gbm_go"
      [] p = "gbm_go" -> "gbm_enter"
      [] OTHER -> "stop_wait"

SendPcs == {"init_uci", "init_opt1", "init_opt2", "init_isready", "gbm_pos", "gbm_go"}
EnterPcs == {"init_uci_enter", "init_ready_enter", "gbm_enter"}
ReadPcs == {"init_uci_read", "init_ready_read", "gbm_read"}

\* The prefix each read waits for.
Until(p) ==
    CASE p \in {"init_uci_enter", "init_uci_read"} -> "uciok"
      [] p \in {"init_ready_enter", "init_ready_read"} -> "readyok"
      [] OTHER -> "bestmove"

LoopOf(p) ==
    CASE p = "init_uci_enter" -> "init_uci_read"
      [] p = "init_ready_enter" -> "init_ready_read"
      [] OTHER -> "gbm_read"

----------------------------------------------------------------------------
\* Error texts.  An error is the sequence of its message parts, outermost
\* wrapper first: f"Error getting best move: {e}" is <<that prefix>> \o e.

NotRunning == <<"Engine process is not running">>
SendFailed == <<"Failed to send command">>
NotInitialized == <<"Engine not initialized or not running">>
TimeoutMsg == <<"Timeout waiting for response">>
Terminated == <<"Engine process terminated unexpectedly">>
NoBestMove == <<"No best move found in engine response">>
ReadWrap(e) == <<"Error reading engine response">> \o e
GbmWrap(e) == <<"Error getting best move">> \o e
InitWrap(e) == <<"Failed to initialize engine">> \o e

Contains(e, part) == \E i \in 1..Len(e) : e[i] = part

NoResult == [op |-> "none", ok |-> TRUE, err |-> <<>>, move |-> "", call |-> 0, line |-> 0]
Ok(o, mv, c, l) == [op |-> o, ok |-> TRUE, err |-> <<>>, move |-> mv, call |-> c, line |-> l]
Err(o, e, c) == [op |-> o, ok |-> FALSE, err |-> e, move |-> "", call |-> c, line |-> 0]

----------------------------------------------------------------------------
\* The instances the registry and the shutdown hooks deal with: the two
\* StockfishEngine instances main.py constructs, and a Stoppable that is no
\* StockfishEngine (its stop() touches no registry, and may raise).
Engines == {"e1", "e2"}
Stub == "stub"
Insts == Engines \cup {Stub}

\* A frame of a thread's call stack: the function, its position, the
\* instance it works on and, for shutdown_all, the snapshot it took, the
\* instances still to stop, those stop() was called on and the exceptions
\* it caught; `ret` says that the shutdown_all a handler called has returned.
Frame(f, p, e) ==
    [fn |-> f, pc |-> p, inst |-> e, snap |-> {}, left |-> {}, done |-> <<>>,
     caught |-> 0, ret |-> FALSE]

NoSweep == [snap |-> {}, done |-> <<>>, caught |-> 0, n |-> 0]

----------------------------------------------------------------------------
\* _get_engine_path(): where the Stockfish binary is looked for.  A path is
\* the sequence of its components; the file system holds, at a path, nothing
\* that is a regular file ("absent"), a file without the execute permission
\* ("file") or an executable file ("exec").

SystemPaths ==
    << <<"usr", "games", "stockfish">>, <<"usr", "bin", "stockfish">>,
       <<"usr", "local", "bin", "stockfish">> >>

\* A path of the operator's own, as ENGINE_PATH may name one.
CustomPath == <<"opt", "stockfish", "stockfish">>

BinaryName(os) == IF os = "windows" THEN "stockfish.exe" ELSE "stockfish"

\* <project root>/engines/<ENGINE_NAME>/<ENGINE_VERSION>/<os>/<binary>, with
\* the defaults of ENGINE_NAME and ENGINE_VERSION.
FallbackPath(os) == <<"engines", "stockfish", "17.1", os, BinaryName(os)>>

DetectedOs == {"macos", "linux", "windows"}

AllPaths ==
    {CustomPath} \cup {SystemPaths[i] : i \in 1..Len(SystemPaths)}
                 \cup {FallbackPath(o) : o \in DetectedOs}

FileStates == {"absent", "file", "exec"}

\* ENGINE_PATH and ENGINE_OS; <<>> and "" stand for a variable that is unset
\* or empty, which the code does not tell apart.
Environs ==
    [ENGINE_PATH : {<<>>, CustomPath, SystemPaths[2]}, ENGINE_OS : {"", "windows"}]

Systems == {"Darwin", "Linux", "Windows", "FreeBSD"}

\* str.lower() on the names platform.system() gives.
Lower(sys) ==
    CASE sys = "Darwin" -> "darwin"
      [] sys = "Linux" -> "linux"
      [] sys = "Windows" -> "windows"
      [] sys = "FreeBSD" -> "freebsd"

\* path.is_file()
IsFile(fs, p) == fs[p] # "absent"

\* os.access(path, os.X_OK)
Access(fs, p) == fs[p] = "exec"

\* `path.is_file() and os.access(path, os.X_OK)`
Usable(fs, p) == IsFile(fs, p) /\ Access(fs, p)

NoPath == [kind |-> "none", path |-> <<>>, text |-> "", names |-> {}]
\* `return path`
Found(p) == [kind |-> "path", path |-> p, text |-> "", names |-> {}]
\* `raise EngineBinaryError(...)`: the message's fixed text and the paths it
\* names.
Failed(text, names) == [kind |-> "error", path |-> <<>>, text |-> text, names |-> names]

Unsupported == "Unsupported platform"
NotFound == "Stockfish binary not found at fallback path"
NotExecutable == "exists but is not executable"

\* The OS detection: the directory name of the host OS, "" when the host is
\* none of the three.
DetectOs(sys) ==
    CASE Lower(sys) = "darwin" -> "macos"
      [] Lower(sys) = "linux" -> "linux"
      [] Lower(sys) = "windows" -> "windows"
      [] OTHER -> ""

\* An OS choice that does not read ENGINE_OS.
EngineOsDetected(e, sys) == DetectOs(sys)

\* `engine_os = os.environ.get("ENGINE_OS")`, `if not engine_os:` detect.
EngineOs(e, sys) == IF e.ENGINE_OS # "" THEN e.ENGINE_OS ELSE DetectOs(sys)

\* The fallback step: the constructed path, or one of the three errors.
FallbackStep(e, fs, sys) ==
    LET os == EngineOs(e, sys)
        fb == FallbackPath(os)
    IN IF os = "" THEN Failed(Unsupported, {})
       ELSE IF ~IsFile(fs, fb)
       THEN Failed(NotFound,
                   {fb} \cup (IF e.ENGINE_PATH # <<>> THEN {e.ENGINE_PATH} ELSE {}))
       ELSE IF ~Access(fs, fb) THEN Failed(NotExecutable, {fb})
       ELSE Found(fb)

\* The loop over system_paths that takes the last match.
SystemStepLastMatch(e, fs, sys) ==
    LET hits == {i \in 1..Len(SystemPaths) : Usable(fs, SystemPaths[i])}
    IN IF hits # {}
       THEN Found(SystemPaths[CHOOSE i \in hits : \A j \in hits : j <= i])
       ELSE FallbackStep(e, fs, sys)

\* `for path in system_paths:` return the first usable one; the fallback
\* step when there is none.
SystemStep(e, fs, sys) ==
    LET hits == {i \in 1..Len(SystemPaths) : Usable(fs, SystemPaths[i])}
    IN IF hits # {}
       THEN Found(SystemPaths[CHOOSE i \in hits : \A j \in hits : i <= j])
       ELSE FallbackStep(e, fs, sys)

\* An ENGINE_PATH that is set but invalid ends the resolution.
InvalidEnginePathRaises(e, fs, sys) == Failed("ENGINE_PATH set but invalid", {e.ENGINE_PATH})

\* ENGINE_PATH is set but invalid: a warning, and the resolution goes on.
InvalidEnginePath(e, fs, sys) == SystemStep(e, fs, sys)

\* _get_engine_path()
GetEnginePath(e, fs, sys) ==
    IF e.ENGINE_PATH # <<>>
    THEN IF Usable(fs, e.ENGINE_PATH)
         THEN Found(e.ENGINE_PATH)
         ELSE InvalidEnginePath(e, fs, sys)
    ELSE SystemStep(e, fs, sys)

----------------------------------------------------------------------------
\* The chess library as the tools use it (chess.Board, chess.Move.from_uci,
\* board.legal_moves, is_checkmate, is_stalemate, is_insufficient_material),
\* on the positions of the tests and three more.  A UCI move is the sequence
\* of its characters.

StartingFen == "rnbqkbnr/pppppppp/8/8/8/8/PPPPPPPP/RNBQKBNR w KQkq - 0 1"
CheckmateFen == "rnb1kbnr/pppp1ppp/8/4p3/6Pq/5P2/PPPPP2P/RNBQKBNR w KQkq - 0 1"
BlackMatedFen == "R5k1/5ppp/8/8/8/8/8/6K1 b - - 0 1"
StalemateFen == "k7/8/1Q6/8/8/8/8/K7 b - - 0 1"
InsufficientFen == "8/8/8/8/8/8/8/k1K5 w - - 0 1"
BareStalemateFen == "8/8/8/8/8/1k1b4/8/K7 w - - 0 1"
InvalidFen == "invalid fen"

Fens ==
    {StartingFen, CheckmateFen, BlackMatedFen, StalemateFen, InsufficientFen,
     BareStalemateFen, InvalidFen}

Uci(a, b, c, d) == <<a, b, c, d>>

\* The moves the tools are asked about: e2e4, e1e2, e2e9, c1d1 and the empty
\* string.
Moves ==
    {Uci("e", "2", "e", "4"), Uci("e", "1", "e", "2"), Uci("e", "2", "e", "9"),
     Uci("c", "1", "d", "1"), <<>>}

StartingMoves ==
    << Uci("g", "1", "h", "3"), Uci("g", "1", "f", "3"), Uci("b", "1", "c", "3"),
       Uci("b", "1", "a", "3"), Uci("h", "2", "h", "3"), Uci("g", "2", "g", "3"),
       Uci("f", "2", "f", "3"), Uci("e", "2", "e", "3"), Uci("d", "2", "d", "3"),
       Uci("c", "2", "c", "3"), Uci("b", "2", "b", "3"), Uci("a", "2", "a", "3"),
       Uci("h", "2", "h", "4"), Uci("g", "2", "g", "4"), Uci("f", "2", "f", "4"),
       Uci("e", "2", "e", "4"), Uci("d", "2", "d", "4"), Uci("c", "2", "c", "4"),
       Uci("b", "2", "b", "4"), Uci("a", "2", "a", "4") >>

Position(turn, mate, stale, bare, legal) ==
    [valid |-> TRUE, turn |-> turn, checkmate |-> mate, stalemate |-> stale,
     insufficient |-> bare, legal |-> legal]

\* chess.Board(fen): the position, or `valid` false where it raises
\* ValueError.
Board(fen) ==
    CASE fen = StartingFen -> Position("WHITE", FALSE, FALSE, FALSE, StartingMoves)
      [] fen = CheckmateFen -> Position("WHITE", TRUE, FALSE, FALSE, <<>>)
      [] fen = BlackMatedFen -> Position("BLACK", TRUE, FALSE, FALSE, <<>>)
      [] fen = StalemateFen -> Position("BLACK", FALSE, TRUE, FALSE, <<>>)
      [] fen = InsufficientFen ->
            Position("WHITE", FALSE, FALSE, TRUE,
                     << Uci("c", "1", "d", "2"), Uci("c", "1", "c", "2"),
                        Uci("c", "1", "d", "1") >>)
      [] fen = BareStalemateFen -> Position("WHITE", FALSE, TRUE, TRUE, <<>>)
      [] OTHER -> [Position("WHITE", FALSE, FALSE, FALSE, <<>>) EXCEPT !.valid = FALSE]

BoardFiles == {"a", "b", "c", "d", "e", "f", "g", "h"}
BoardRanks == {"1", "2", "3", "4", "5", "6", "7", "8"}
PieceSymbols == {"p", "n", "b", "r", "q", "k"}

\* chess.Move.from_uci(move) does not raise ValueError: the null move, or two
\* squares and at most a piece letter.
FromUci(m) ==
    \/ m = Uci("0", "0", "0", "0")
    \/ /\ Len(m) \in {4, 5}
       /\ m[1] \in BoardFiles /\ m[2] \in BoardRanks
       /\ m[3] \in BoardFiles /\ m[4] \in BoardRanks
       /\ (Len(m) = 5 => m[5] \in PieceSymbols)

\* `move in board.legal_moves`
IsLegal(b, m) == \E i \in 1..Len(b.legal) : b.legal[i] = m

----------------------------------------------------------------------------
\* The MCP tools of main.py.

\* What a call of _engine.get_best_move came to.
NoCall == [made |-> FALSE, ok |-> FALSE, move |-> "", type |-> "", msg |-> <<>>]
Returns(mv) == [made |-> TRUE, ok |-> TRUE, move |-> mv, type |-> "", msg |-> <<>>]
Raises(type, msg) == [made |-> TRUE, ok |-> FALSE, move |-> "", type |-> type, msg |-> msg]

\* The fields of an answer, all empty.
Blank ==
    [best |-> "", legal |-> FALSE, moves |-> <<>>, status |-> "", winner |-> "None",
     error |-> <<>>, call |-> NoCall]

\* An answer of an MCP tool: the tool and its request, the arm of the answer
\* ("result" or "error") and the fields of either arm.
Reply(tool, fen, move, arm, v) ==
    [tool |-> tool, fen |-> fen, move |-> move, arm |-> arm,
     best |-> v.best, legal |-> v.legal, moves |-> v.moves, status |-> v.status,
     winner |-> v.winner, error |-> v.error, call |-> v.call]

NoReply == Reply("none", "", <<>>, "none", Blank)

ErrorReply(tool, fen, move, msg) ==
    Reply(tool, fen, move, "error", [Blank EXCEPT !.error = msg])

InvalidFenMsg == <<"Invalid FEN format">>
InvalidMoveMsg == <<"Invalid move format">>
NotInitializedMsg == <<"Engine not initialized">>
InternalErrorMsg == <<"Internal server error">>

\* validate_move_tool that parses the move before the FEN.
ValidateMoveMoveFirst(fen, move) ==
    IF ~FromUci(move)
    THEN ErrorReply("validate_move", fen, move, InvalidMoveMsg)
    ELSE IF ~Board(fen).valid
    THEN ErrorReply("validate_move", fen, move, InvalidFenMsg)
    ELSE Reply("validate_move", fen, move, "result",
               [Blank EXCEPT !.legal = IsLegal(Board(fen), move)])

\* validate_move_tool
ValidateMove(fen, move) ==
    IF ~Board(fen).valid
    THEN ErrorReply("validate_move", fen, move, InvalidFenMsg)
    ELSE IF ~FromUci(move)
    THEN ErrorReply("validate_move", fen, move, InvalidMoveMsg)
    ELSE Reply("validate_move", fen, move, "result",
               [Blank EXCEPT !.legal = IsLegal(Board(fen), move)])

\* get_legal_moves_tool
GetLegalMoves(fen) ==
    IF ~Board(fen).valid
    THEN ErrorReply("get_legal_moves", fen, <<>>, InvalidFenMsg)
    ELSE Reply("get_legal_moves", fen, <<>>, "result",
               [Blank EXCEPT !.moves = Board(fen).legal])

\* A winner that is the side to move.
WinnerSideToMove(b) == b.turn

\* `winner = "BLACK" if board.turn == chess.WHITE else "WHITE"`
Winner(b) == IF b.turn = "WHITE" THEN "BLACK" ELSE "WHITE"

\* get_game_status_tool that looks at the material before stalemate.
GameStatusMaterialFirst(b) ==
    IF b.checkmate THEN [Blank EXCEPT !.status = "CHECKMATE", !.winner = Winner(b)]
    ELSE IF b.insufficient THEN [Blank EXCEPT !.status = "DRAW"]
    ELSE IF b.stalemate THEN [Blank EXCEPT !.status = "STALEMATE"]
    ELSE [Blank EXCEPT !.status = "IN_PROGRESS"]

\* get_game_status_tool: the if / elif chain on the board.
GameStatus(b) ==
    IF b.checkmate THEN [Blank EXCEPT !.status = "CHECKMATE", !.winner = Winner(b)]
    ELSE IF b.stalemate THEN [Blank EXCEPT !.status = "STALEMATE"]
    ELSE IF b.insufficient THEN [Blank EXCEPT !.status = "DRAW"]
    ELSE [Blank EXCEPT !.status = "IN_PROGRESS"]

\* get_game_status_tool
GetGameStatus(fen) ==
    IF ~Board(fen).valid
    THEN ErrorReply("get_game_status", fen, <<>>, InvalidFenMsg)
    ELSE Reply("get_game_status", fen, <<>>, "result", GameStatus(Board(fen)))

\* What _engine.get_best_move can come to on instance e: the StockfishError of
\* its first line when the process is not there or not running; otherwise a
\* move, or a StockfishError that wraps what went wrong.  The wrapper lets
\* no other exception out; a handle of another class may (the tests install
\* one that raises Exception), which the last outcome stands for.
EngineOutcomes(e) ==
    IF proc[e] = "None" \/ ~run[e]
    THEN {Raises("StockfishError", NotInitialized)}
    ELSE {Returns("e2e4"), Returns("(none)"),
          Raises("StockfishError", GbmWrap(ReadWrap(TimeoutMsg))),
          Raises("StockfishError", GbmWrap(NoBestMove)),
          Raises("Exception", <<"Unexpected error">>)}

\* get_best_move_tool whose handler of StockfishError handles every
\* exception.
BestMoveReplyOneHandler(fen, o) ==
    IF o.ok
    THEN Reply("get_best_move", fen, <<>>, "result",
               [Blank EXCEPT !.best = o.move, !.call = o])
    ELSE Reply("get_best_move", fen, <<>>, "error",
               [Blank EXCEPT !.error = o.msg, !.call = o])

\* get_best_move_tool, once _engine.get_best_move has come to o.
BestMoveReply(fen, o) ==
    IF o.ok
    THEN Reply("get_best_move", fen, <<>>, "result",
               [Blank EXCEPT !.best = o.move, !.call = o])
    ELSE IF o.type = "StockfishError"
    THEN Reply("get_best_move", fen, <<>>, "error",
               [Blank EXCEPT !.error = o.msg, !.call = o])
    ELSE Reply("get_best_move", fen, <<>>, "error",
               [Blank EXCEPT !.error = InternalErrorMsg, !.call = o])

\* get_best_move_tool
GetBestMove(handle, fen) ==
    IF handle = "None"
    THEN {ErrorReply("get_best_move", fen, <<>>, NotInitializedMsg)}
    ELSE {BestMoveReply(fen, o) : o \in EngineOutcomes(handle)}

----------------------------------------------------------------------------
\* The /health endpoint of health_server.py.

\* An answer of the /health endpoint, with the handle it found and what the
\* is_initialized() it called came to.
Probe(code, status, engine, handle, o) ==
    [code |-> code, status |-> status, engine |-> engine, handle |-> handle,
     made |-> o.made, ok |-> o.ok, ready |-> o.ready]

NoCheck == [made |-> FALSE, ok |-> FALSE, ready |-> FALSE]
Checked(b) == [made |-> TRUE, ok |-> TRUE, ready |-> b]
CheckRaised == [made |-> TRUE, ok |-> FALSE, ready |-> FALSE]

NoProbe == Probe(0, "", "", "None", NoCheck)

\* StockfishEngine.is_initialized(): the process is there and running.
IsInitialized(e) == proc[e] = "Popen" /\ run[e]

\* What _engine.is_initialized() can come to: its value, or an exception (as
\* the handle the tests install raises one).
ReadyOutcomes(e) == {Checked(IsInitialized(e)), CheckRaised}

\* health_check without its `except Exception`.
HealthCheckUnguarded(handle, o) ==
    IF handle # "None" /\ ~o.ok THEN Probe(500, "error", "error", handle, o)
    ELSE IF handle # "None" /\ o.ready THEN Probe(200, "ok", "ok", handle, o)
    ELSE Probe(503, "degraded", "error", handle, o)

\* health_check, o being what is_initialized() came to when it was called.
HealthCheck(handle, o) ==
    LET engine_ready == handle # "None" /\ o.ok /\ o.ready
    IN IF engine_ready THEN Probe(200, "ok", "ok", handle, o)
       ELSE Probe(503, "degraded", "error", handle, o)

----------------------------------------------------------------------------
\* The service before any request: the environment of a Linux host with
\* nothing installed and nothing configured.
ServiceIdle ==
    /\ environ = [ENGINE_PATH |-> <<>>, ENGINE_OS |-> ""]
    /\ system = "Linux"
    /\ files = [p \in AllPaths |-> "absent"]
    /\ resolved = NoPath
    /\ healthEngine = "None"
    /\ probe = NoProbe
    /\ reply = NoReply

\* No registry operation and no shutdown is under way, no instance exists.
RegistryIdle ==
    /\ stack = [t \in AllThreads |-> <<>>]
    /\ proc = [e \in Insts |-> "None"]
    /\ run = [e \in Insts |-> FALSE]
    /\ quits = [e \in Insts |-> 0]
    /\ fresh = Insts
    /\ raised = [t \in AllThreads |-> {}]
    /\ nops = [t \in AllThreads |-> 0]
    /\ swept = {}
    /\ sweepCalls = [e \in Insts |-> 0]
    /\ lastSweep = [t \in AllThreads |-> NoSweep]
    /\ lifeStops = [e \in Insts |-> 0]
    /\ hooks = 0
    /\ globalEngine = "None"
    /\ phase = "running"
    /\ exitCode = 0
    /\ exitBy = ""
    /\ exitAt = ""
    /\ nsig = 0

\* The wrapper before any constructor has run.
WrapperIdle ==
    /\ pc = [t \in AllThreads |-> "start"]
    /\ op = [t \in AllThreads |-> "none"]
    /\ responses = [t \in AllThreads |-> <<>>]
    /\ exc = [t \in AllThreads |-> <<>>]
    /\ call = [t \in AllThreads |-> 0]
    /\ result = [t \in AllThreads |-> NoResult]
    /\ process = "None"
    /\ constructed = FALSE
    /\ alive = FALSE
    /\ stdinOpen = FALSE
    /\ eof = FALSE
    /\ sent = <<>>
    /\ nproc = 0
    /\ todo = <<>>
    /\ out = <<>>
    /\ ncalls = 0
    /\ killFailed = FALSE
    /\ got = {}
    /\ ended = [t \in AllThreads |-> ""]
    /\ broken = FALSE
    /\ nread = 0
    /\ ndeliv = 0
    /\ frag = <<>>
    /\ blocked = {}
    /\ reqs = <<>>

Init ==
    /\ WrapperIdle
    /\ registry = {}
    /\ request \in Requests
    /\ RegistryIdle
    /\ ServiceIdle


----------------------------------------------------------------------------
\* Control flow shared by the methods.

\* The positions of get_best_move after its position line has been written.
MidPcs == {"gbm_go", "gbm_enter", "gbm_read"}

\* Raise without the self.stop() of _initialize_engine's except branch.
RaiseNoStop(t, e) ==
    IF op[t] = "new"
    THEN /\ result' = [result EXCEPT ![t] = Err("new", InitWrap(e), 0)]
         /\ pc' = [pc EXCEPT ![t] = "failed"]
         /\ op' = [op EXCEPT ![t] = "none"]
         /\ UNCHANGED <<exc, broken>>
    ELSE /\ result' = [result EXCEPT ![t] = Err("gbm", GbmWrap(e), call[t])]
         /\ pc' = [pc EXCEPT ![t] = "idle"]
         /\ op' = [op EXCEPT ![t] = "none"]
         /\ broken' = (broken \/ pc[t] \in MidPcs)
         /\ UNCHANGED exc

\* Raise with get_best_move letting the exception through as it is.
RaiseUnwrapped(t, e) ==
    IF op[t] = "new"
    THEN /\ exc' = [exc EXCEPT ![t] = InitWrap(e)]
         /\ pc' = [pc EXCEPT ![t] = "stop_begin"]
         /\ UNCHANGED <<op, result, broken>>
    ELSE /\ result' = [result EXCEPT ![t] = Err("gbm", e, call[t])]
         /\ pc' = [pc EXCEPT ![t] = "idle"]
         /\ op' = [op EXCEPT ![t] = "none"]
         /\ broken' = (broken \/ pc[t] \in MidPcs)
         /\ UNCHANGED exc

\* An exception raised inside the try block of the running operation:
\* _initialize_engine stops the engine and re-raises it wrapped;
\* get_best_move re-raises it wrapped, and touches nothing else.
Raise(t, e) ==
    IF op[t] = "new"
    THEN /\ exc' = [exc EXCEPT ![t] = InitWrap(e)]
         /\ pc' = [pc EXCEPT ![t] = "stop_begin"]
         /\ UNCHANGED <<op, result, broken>>
    ELSE /\ result' = [result EXCEPT ![t] = Err("gbm", GbmWrap(e), call[t])]
         /\ pc' = [pc EXCEPT ![t] = "idle"]
         /\ op' = [op EXCEPT ![t] = "none"]
         /\ broken' = (broken \/ pc[t] \in MidPcs)
         /\ UNCHANGED exc

\* The last token of a line, where split()[1] is meant.
LastToken(line) == line.toks[Len(line.toks)]

\* response.split()[1]
SecondToken(line) == line.toks[2]

\* Index of the first line of rs that starts with `bestmove` (0 when none).
FirstBestmove(rs) ==
    IF AnyStartsWith(rs, "bestmove")
    THEN CHOOSE i \in 1..Len(rs) :
            /\ StartsWith(rs[i], "bestmove")
            /\ \A j \in 1..(i - 1) : ~StartsWith(rs[j], "bestmove")
    ELSE 0

\* Returned without the `any(r.startswith(...))` checks of the handshake.
ReturnedUnchecked(t, rs) ==
    CASE pc[t] = "init_uci_read" ->
            /\ pc' = [pc EXCEPT ![t] = "init_opt1"]
            /\ UNCHANGED <<op, result, exc, broken>>
      [] pc[t] = "init_ready_read" ->
            /\ pc' = [pc EXCEPT ![t] = "init_register"]
            /\ UNCHANGED <<op, result, exc, broken>>
      [] OTHER ->
            LET i == FirstBestmove(rs) IN
            IF i = 0 THEN Raise(t, NoBestMove)
            ELSE IF Len(rs[i].toks) < 2 THEN Raise(t, <<"list index out of range">>)
            ELSE /\ result' = [result EXCEPT
                                 ![t] = Ok("gbm", SecondToken(rs[i]), call[t], rs[i].id)]
                 /\ pc' = [pc EXCEPT ![t] = "idle"]
                 /\ op' = [op EXCEPT ![t] = "none"]
                 /\ UNCHANGED <<exc, broken>>

\* What the caller of _read_response does with the list rs it returned.
Returned(t, rs) ==
    CASE pc[t] = "init_uci_read" ->
            IF AnyStartsWith(rs, "uciok")
            THEN /\ pc' = [pc EXCEPT ![t] = "init_opt1"]
                 /\ UNCHANGED <<op, result, exc, broken>>
            ELSE Raise(t, <<"Failed to initialize UCI mode">>)
      [] pc[t] = "init_ready_read" ->
            IF AnyStartsWith(rs, "readyok")
            THEN /\ pc' = [pc EXCEPT ![t] = "init_register"]
                 /\ UNCHANGED <<op, result, exc, broken>>
            ELSE Raise(t, <<"Engine not responding to isready command">>)
      [] OTHER ->
            LET i == FirstBestmove(rs) IN
            IF i = 0 THEN Raise(t, NoBestMove)
            ELSE IF Len(rs[i].toks) < 2 THEN Raise(t, <<"list index out of range">>)
            ELSE /\ result' = [result EXCEPT
                                 ![t] = Ok("gbm", SecondToken(rs[i]), call[t], rs[i].id)]
                 /\ pc' = [pc EXCEPT ![t] = "idle"]
                 /\ op' = [op EXCEPT ![t] = "none"]
                 /\ UNCHANGED <<exc, broken>>

----------------------------------------------------------------------------
\* StockfishEngine.__init__ and _initialize_engine

\* self.process = None; _get_engine_path() finds a binary or raises.
NewBegin(t) ==
    /\ UNCHANGED <<envVars, ioVars>>
    /\ pc[t] = "start"
    /\ ~constructed
    /\ \A u \in AllThreads : op[u] # "new"
    /\ process' = "None"
    /\ \E found \in BOOLEAN :
         IF found
         THEN /\ pc' = [pc EXCEPT ![t] = "init_spawn"]
              /\ op' = [op EXCEPT ![t] = "new"]
              /\ UNCHANGED exc
         ELSE /\ exc' = [exc EXCEPT ![t] = InitWrap(<<"Stockfish binary not found">>)]
              /\ pc' = [pc EXCEPT ![t] = "stop_begin"]
              /\ op' = [op EXCEPT ![t] = "new"]
    /\ UNCHANGED <<responses, call, result, constructed, registry, childVars, sent,
                   ncalls, killFailed>>
    /\ UNCHANGED <<got, ended, broken>>

\* subprocess.Popen starts the child or raises OSError.
InitSpawn(t) ==
    /\ UNCHANGED <<envVars, ioVars>>
    /\ pc[t] = "init_spawn"
    /\ \E started \in BOOLEAN :
         IF started
         THEN /\ process' = "Popen"
              /\ alive' = TRUE
              /\ stdinOpen' = TRUE
              /\ pc' = [pc EXCEPT ![t] = "init_uci"]
              /\ UNCHANGED <<op, exc, result, broken>>
         ELSE /\ Raise(t, <<"Failed to start process">>)
              /\ UNCHANGED <<process, alive, stdinOpen>>
    /\ UNCHANGED <<responses, call, constructed, registry, eof, nproc, todo, out, sent,
                   ncalls, killFailed>>
    /\ UNCHANGED <<got, ended>>

\* EngineRegistry.register(self), and the constructor returns.
Register(t) ==
    /\ UNCHANGED <<envVars, ioVars>>
    /\ pc[t] = "init_register"
    /\ registry' = registry \cup {Self}
    /\ constructed' = TRUE
    /\ pc' = [pc EXCEPT ![t] = "idle"]
    /\ op' = [op EXCEPT ![t] = "none"]
    /\ result' = [result EXCEPT ![t] = Ok("new", "", 0, 0)]
    /\ UNCHANGED <<responses, exc, call, process, childVars, sent, ncalls, killFailed>>
    /\ UNCHANGED <<got, ended, broken>>

----------------------------------------------------------------------------
\* _send_command, at the six places that call it outside stop()

Send(t) ==
    /\ UNCHANGED <<envVars, ioVars>>
    /\ pc[t] \in SendPcs
    /\ IF process = "None" \/ ~alive
       THEN Raise(t, NotRunning) /\ UNCHANGED sent
       ELSE IF ~stdinOpen
       THEN Raise(t, SendFailed) /\ UNCHANGED sent
       ELSE /\ sent' = Append(sent, CommandAt(pc[t], call[t]))
            /\ pc' = [pc EXCEPT ![t] = AfterSend(pc[t])]
            /\ UNCHANGED <<op, result, exc, broken>>
    /\ UNCHANGED <<responses, call, process, constructed, registry, childVars, ncalls,
                   killFailed>>
    /\ UNCHANGED <<got, ended>>

----------------------------------------------------------------------------
\* _read_response

\* The check on entry, before the loop.
ReadEnter(t) ==
    /\ UNCHANGED <<envVars, ioVars>>
    /\ pc[t] \in EnterPcs
    /\ IF process = "None" \/ ~alive
       THEN Raise(t, NotRunning) /\ UNCHANGED responses
       ELSE /\ pc' = [pc EXCEPT ![t] = LoopOf(pc[t])]
            /\ responses' = [responses EXCEPT ![t] = <<>>]
            /\ UNCHANGED <<op, result, exc, broken>>
    /\ UNCHANGED <<call, process, constructed, registry, childVars, sent, ncalls,
                   killFailed>>
    /\ ended' = [ended EXCEPT ![t] = ""]
    /\ UNCHANGED got

\* ReadTimeout that returns the list also when it is empty.
ReadTimeoutAlwaysReturns(t) ==
    /\ UNCHANGED envVars
    /\ pc[t] \in ReadPcs
    /\ t \notin blocked
    /\ ndeliv' = ndeliv + Len(responses[t])
    /\ UNCHANGED <<nread, frag, blocked>>
    /\ Returned(t, responses[t])
    /\ UNCHANGED <<responses, call, process, constructed, registry, childVars, sent,
                   ncalls, killFailed>>
    /\ ended' = [ended EXCEPT ![t] = "deadline"]
    /\ UNCHANGED got

\* ReadTimeout that raises whatever has been read.
ReadTimeoutAlwaysRaises(t) ==
    /\ UNCHANGED <<envVars, ioVars>>
    /\ pc[t] \in ReadPcs
    /\ t \notin blocked
    /\ Raise(t, ReadWrap(TimeoutMsg))
    /\ UNCHANGED <<responses, call, process, constructed, registry, childVars, sent,
                   ncalls, killFailed>>
    /\ ended' = [ended EXCEPT ![t] = "deadline"]
    /\ UNCHANGED got

\* ReadTimeout that tells a searching engine to `stop` before it gives up.
ReadTimeoutSendsStop(t) ==
    /\ UNCHANGED envVars
    /\ pc[t] \in ReadPcs
    /\ t \notin blocked
    /\ ndeliv' = ndeliv + Len(responses[t])
    /\ UNCHANGED <<nread, frag, blocked>>
    /\ IF responses[t] # <<>>
       THEN Returned(t, responses[t])
       ELSE Raise(t, ReadWrap(TimeoutMsg))
    /\ sent' = IF pc[t] = "gbm_read" /\ alive /\ stdinOpen
               THEN Append(sent, Cmd(<<"stop">>, call[t])) ELSE sent
    /\ UNCHANGED <<responses, call, process, constructed, registry, childVars, ncalls,
                   killFailed>>
    /\ ended' = [ended EXCEPT ![t] = "deadline"]
    /\ UNCHANGED got

\* The deadline has passed at the top of the loop.  Every caller passes
\* `until`, so a non-empty list is returned as it is.
ReadTimeout(t) ==
    /\ UNCHANGED envVars
    /\ pc[t] \in ReadPcs
    /\ t \notin blocked
    /\ ndeliv' = ndeliv + Len(responses[t])
    /\ UNCHANGED <<nread, frag, blocked>>
    /\ IF responses[t] # <<>>
       THEN Returned(t, responses[t])
       ELSE Raise(t, ReadWrap(TimeoutMsg))
    /\ UNCHANGED <<responses, call, process, constructed, registry, childVars, sent,
                   ncalls, killFailed>>
    /\ ended' = [ended EXCEPT ![t] = "deadline"]
    /\ UNCHANGED got

\* ReadLine that keeps only the line it waits for.
ReadLineKeepsPrefixOnly(t) ==
    /\ UNCHANGED envVars
    /\ pc[t] \in ReadPcs
    /\ process # "None"
    /\ out # <<>>
    /\ nread' = nread + 1
    /\ blocked' = blocked \ {t}
    /\ UNCHANGED frag
    /\ LET line == Head(out)
           rs == IF StartsWith(line, Until(pc[t])) THEN Append(responses[t], line)
                 ELSE responses[t]
       IN /\ out' = Tail(out)
          /\ responses' = [responses EXCEPT ![t] = rs]
          /\ ndeliv' = IF StartsWith(line, Until(pc[t])) THEN ndeliv + Len(rs)
                        ELSE ndeliv
          /\ IF StartsWith(line, Until(pc[t]))
             THEN Returned(t, rs)
             ELSE UNCHANGED <<pc, op, result, exc, broken>>
    /\ UNCHANGED <<call, process, constructed, registry, alive, stdinOpen, eof, nproc,
                   todo, sent, ncalls, killFailed>>
    /\ got' = got \cup {Head(out).toks[1]}
    /\ ended' = [ended EXCEPT ![t] = IF StartsWith(Head(out), Until(pc[t]))
                                     THEN "prefix" ELSE @]

\* select() reports a line; readline() takes it.
ReadLine(t) ==
    /\ UNCHANGED envVars
    /\ pc[t] \in ReadPcs
    /\ process # "None"
    /\ out # <<>>
    /\ nread' = nread + 1
    /\ blocked' = blocked \ {t}
    /\ UNCHANGED frag
    /\ ndeliv' = IF StartsWith(Head(out), Until(pc[t]))
                  THEN ndeliv + Len(responses[t]) + 1 ELSE ndeliv
    /\ LET line == Head(out)
           rs == Append(responses[t], line)
       IN /\ out' = Tail(out)
          /\ responses' = [responses EXCEPT ![t] = rs]
          /\ IF StartsWith(line, Until(pc[t]))
             THEN Returned(t, rs)
             ELSE UNCHANGED <<pc, op, result, exc, broken>>
    /\ UNCHANGED <<call, process, constructed, registry, alive, stdinOpen, eof, nproc,
                   todo, sent, ncalls, killFailed>>
    /\ got' = got \cup {Head(out).toks[1]}
    /\ ended' = [ended EXCEPT ![t] = IF StartsWith(Head(out), Until(pc[t]))
                                     THEN "prefix" ELSE @]

\* select() reports nothing and poll() says the child is gone.
ReadTerminated(t) ==
    /\ UNCHANGED <<envVars, ioVars>>
    /\ pc[t] \in ReadPcs
    /\ t \notin blocked
    /\ process # "None"
    /\ out = <<>>
    /\ ~alive
    /\ ~eof
    /\ Raise(t, ReadWrap(Terminated))
    /\ UNCHANGED <<responses, call, process, constructed, registry, childVars, sent,
                   ncalls, killFailed>>
    /\ ended' = [ended EXCEPT ![t] = "exit"]
    /\ UNCHANGED got

----------------------------------------------------------------------------
\* get_best_move

\* get_best_move without the test of the process on entry.
GbmBeginUnchecked(t) ==
    /\ UNCHANGED <<envVars, ioVars>>
    /\ pc[t] = "idle"
    /\ constructed
    /\ ncalls < MaxCalls
    /\ ncalls' = ncalls + 1
    /\ call' = [call EXCEPT ![t] = ncalls + 1]
    /\ pc' = [pc EXCEPT ![t] = "gbm_pos"]
    /\ op' = [op EXCEPT ![t] = "gbm"]
    /\ UNCHANGED <<result, responses, exc, process, constructed, registry, childVars,
                   sent, killFailed>>
    /\ ended' = [ended EXCEPT ![t] = ""]
    /\ UNCHANGED <<got, broken>>

\* `if not self.process or self.process.poll() is not None: raise`, outside
\* the try block; the position line is next.
GbmBegin(t) ==
    /\ UNCHANGED <<envVars, ioVars>>
    /\ pc[t] = "idle"
    /\ constructed
    /\ ncalls < MaxCalls
    /\ ncalls' = ncalls + 1
    /\ call' = [call EXCEPT ![t] = ncalls + 1]
    /\ IF process = "None" \/ ~alive
       THEN /\ result' = [result EXCEPT ![t] = Err("gbm", NotInitialized, ncalls + 1)]
            /\ UNCHANGED <<pc, op>>
       ELSE /\ pc' = [pc EXCEPT ![t] = "gbm_pos"]
            /\ op' = [op EXCEPT ![t] = "gbm"]
            /\ UNCHANGED result
    /\ UNCHANGED <<responses, exc, process, constructed, registry, childVars, sent,
                   killFailed>>
    /\ ended' = [ended EXCEPT ![t] = ""]
    /\ UNCHANGED <<got, broken>>


----------------------------------------------------------------------------
\* stop

\* The except branch without its kill().
StopExceptNoKill == "stop_finally"

\* `except Exception as e:` around quit and wait leads to kill().
StopExcept == "stop_kill"

\* kill() without an except clause of its own: the exception leaves stop().
KillExceptEscapes == "stop_raise"

\* `except Exception as e:` around kill() logs, and falls through to finally.
KillExcept == "stop_finally"

\* stop() returns to its caller: the constructor's error path re-raises its
\* own error, a direct call returns, or lets out an exception nothing caught.
StopReturn(t) ==
    IF op[t] = "new"
    THEN /\ result' = [result EXCEPT ![t] = Err("new", exc[t], 0)]
         /\ pc' = [pc EXCEPT ![t] = "failed"]
         /\ op' = [op EXCEPT ![t] = "none"]
    ELSE /\ result' = [result EXCEPT ![t] =
                          IF pc[t] = "stop_raise"
                          THEN Err("stop", <<"Failed to kill engine process">>, 0)
                          ELSE Ok("stop", "", 0, 0)]
         /\ pc' = [pc EXCEPT ![t] = "idle"]
         /\ op' = [op EXCEPT ![t] = "none"]

\* A caller invokes stop() on the instance.
StopCall(t) ==
    /\ UNCHANGED <<envVars, ioVars>>
    /\ pc[t] = "idle"
    /\ constructed
    /\ pc' = [pc EXCEPT ![t] = "stop_begin"]
    /\ op' = [op EXCEPT ![t] = "stop"]
    /\ UNCHANGED <<responses, exc, call, result, process, constructed, registry,
                   childVars, sent, ncalls, killFailed>>
    /\ UNCHANGED <<got, ended, broken>>

\* `if self.process:` and `if self.process.poll() is None:`
StopBegin(t) ==
    /\ UNCHANGED <<envVars, ioVars>>
    /\ pc[t] = "stop_begin"
    /\ IF process = "None"
       THEN StopReturn(t)
       ELSE /\ pc' = [pc EXCEPT ![t] = IF alive THEN "stop_quit" ELSE "stop_finally"]
            /\ UNCHANGED <<op, result>>
    /\ UNCHANGED <<responses, exc, call, process, constructed, registry, childVars,
                   sent, ncalls, killFailed>>
    /\ UNCHANGED <<got, ended, broken>>

\* self._send_command("quit"); a failure goes to the except branch.
StopQuit(t) ==
    /\ UNCHANGED <<envVars, ioVars>>
    /\ pc[t] = "stop_quit"
    /\ IF process # "None" /\ alive /\ stdinOpen
       THEN /\ sent' = Append(sent, CommandAt(pc[t], 0))
            /\ pc' = [pc EXCEPT ![t] = AfterSend(pc[t])]
       ELSE /\ pc' = [pc EXCEPT ![t] = StopExcept]
            /\ UNCHANGED sent
    /\ UNCHANGED <<op, responses, exc, call, result, process, constructed, registry,
                   childVars, ncalls, killFailed>>
    /\ UNCHANGED <<got, ended, broken>>

\* self.process.wait(timeout=5.0) returns when the child has exited and
\* raises TimeoutExpired when it has not.
StopWait(t) ==
    /\ UNCHANGED <<envVars, ioVars>>
    /\ pc[t] = "stop_wait"
    /\ pc' = [pc EXCEPT ![t] = IF process # "None" /\ ~alive THEN "stop_finally"
                                                              ELSE StopExcept]
    /\ UNCHANGED <<op, responses, exc, call, result, process, constructed, registry,
                   childVars, sent, ncalls, killFailed>>
    /\ UNCHANGED <<got, ended, broken>>

\* self.process.kill(); its own failure is logged and swallowed.
StopKill(t) ==
    /\ UNCHANGED <<request, regVars, svcVars, ioVars>>
    /\ pc[t] = "stop_kill"
    /\ reqs' = IF process # "None" THEN Append(reqs, "kill") ELSE reqs
    /\ \/ /\ process # "None"
          /\ pc' = [pc EXCEPT ![t] = "stop_finally"]
          /\ alive' = FALSE
          /\ stdinOpen' = FALSE
          /\ todo' = <<>>
          /\ \E e \in BOOLEAN : eof' = (eof \/ e)
          /\ UNCHANGED killFailed
       \/ /\ process = "None" \/ alive
          /\ pc' = [pc EXCEPT ![t] = KillExcept]
          /\ killFailed' = (killFailed \/ process # "None")
          /\ UNCHANGED <<alive, stdinOpen, todo, eof>>
    /\ UNCHANGED <<op, responses, exc, call, result, process, constructed, registry,
                   nproc, out, sent, ncalls>>
    /\ UNCHANGED <<got, ended, broken>>

\* StopFinally without `self.process = None`.
StopFinallyKeepsHandle(t) ==
    /\ UNCHANGED <<envVars, ioVars>>
    /\ pc[t] \in {"stop_finally", "stop_raise"}
    /\ registry' = registry \ {Self}
    /\ StopReturn(t)
    /\ UNCHANGED <<responses, exc, call, constructed, childVars, sent, ncalls,
                   killFailed, process>>
    /\ UNCHANGED <<got, ended, broken>>

\* StopFinally without `EngineRegistry.unregister(self)`.
StopFinallyKeepsRegistered(t) ==
    /\ UNCHANGED <<envVars, ioVars>>
    /\ pc[t] \in {"stop_finally", "stop_raise"}
    /\ process' = "None"
    /\ StopReturn(t)
    /\ UNCHANGED <<responses, exc, call, constructed, childVars, sent, ncalls,
                   killFailed, registry>>
    /\ UNCHANGED <<got, ended, broken>>

\* finally: self.process = None; EngineRegistry.unregister(self)
StopFinally(t) ==
    /\ UNCHANGED <<envVars, ioVars>>
    /\ pc[t] \in {"stop_finally", "stop_raise"}
    /\ process' = "None"
    /\ registry' = registry \ {Self}
    /\ StopReturn(t)
    /\ UNCHANGED <<responses, exc, call, constructed, childVars, sent, ncalls,
                   killFailed>>
    /\ UNCHANGED <<got, ended, broken>>

----------------------------------------------------------------------------
\* The child process: a UCI engine that takes its commands in order, answers
\* `uci`, `isready` and `go`, exits on `quit`, and may at any moment be slow,
\* close its stdin or exit.

\* The lines a search can end with: a move with a ponder move, or `(none)`
\* when the position has no legal move.
Bestmoves == {<<"bestmove", "e2e4", "ponder", "e7e5">>, <<"bestmove", "(none)">>}

Infos(k, n) == [i \in 1..k |-> Line(<<"info", "depth", "10">>, n)]

Answer(c) ==
    CASE c.toks[1] = "uci" ->
            {<<Line(<<"id", "name", "Stockfish">>, 0), Line(<<"uciok">>, 0)>>}
      [] c.toks[1] = "isready" -> {<<Line(<<"readyok">>, 0)>>}
      [] c.toks[1] = "go" ->
            {Infos(k, c.id) \o <<Line(b, c.id)>> : k \in 0..MaxInfo, b \in Bestmoves}
      [] OTHER -> {<<>>}

\* The child takes the next command from its stdin.
ChildRead ==
    /\ UNCHANGED <<envVars, ioVars>>
    /\ alive
    /\ stdinOpen
    /\ todo = <<>>
    /\ nproc < Len(sent)
    /\ nproc' = nproc + 1
    /\ LET c == sent[nproc + 1] IN
       IF c.toks[1] = "quit"
       THEN /\ alive' = FALSE
            /\ stdinOpen' = FALSE
            /\ \E e \in BOOLEAN : eof' = e
            /\ UNCHANGED todo
       ELSE /\ \E a \in Answer(c) : todo' = a
            /\ UNCHANGED <<alive, stdinOpen, eof>>
    /\ UNCHANGED <<threadVars, process, constructed, registry, out, sent, ncalls,
                   killFailed>>

\* The child writes the next line of its answer to stdout, newline included.
ChildWrite ==
    /\ UNCHANGED <<envVars, ioVars>>
    /\ alive
    /\ todo # <<>>
    /\ frag = <<>>
    /\ out' = Append(out, [Head(todo) EXCEPT !.k = nread + Len(out) + 1])
    /\ todo' = Tail(todo)
    /\ UNCHANGED <<threadVars, process, constructed, registry, alive, stdinOpen, eof,
                   nproc, sent, ncalls, killFailed>>

\* The child closes its stdin, or its stdin breaks, while it keeps running.
ChildCloseStdin ==
    /\ UNCHANGED <<envVars, ioVars>>
    /\ alive
    /\ stdinOpen
    /\ stdinOpen' = FALSE
    /\ UNCHANGED <<threadVars, process, constructed, registry, alive, eof, nproc, todo,
                   out, sent, ncalls, killFailed>>

\* The child exits on its own.
ChildExit ==
    /\ UNCHANGED <<envVars, ioVars>>
    /\ alive
    /\ alive' = FALSE
    /\ stdinOpen' = FALSE
    /\ todo' = <<>>
    /\ \E e \in BOOLEAN : eof' = e
    /\ UNCHANGED <<threadVars, process, constructed, registry, nproc, out, sent, ncalls,
                   killFailed>>

Child == ChildRead \/ ChildWrite \/ ChildCloseStdin \/ ChildExit

----------------------------------------------------------------------------
\* One thread uses the instance: it constructs it, then calls get_best_move
\* and stop one after the other, while the child runs beside it.

Step(t) ==
    \/ NewBegin(t) \/ InitSpawn(t) \/ Register(t)
    \/ Send(t) \/ ReadEnter(t) \/ ReadTimeout(t) \/ ReadLine(t) \/ ReadTerminated(t)
    \/ GbmBegin(t)
    \/ StopCall(t) \/ StopBegin(t) \/ StopQuit(t) \/ StopWait(t) \/ StopKill(t)
    \/ StopFinally(t)

Next == Step("t1") \/ Child

Spec == Init /\ [][Next]_vars


----------------------------------------------------------------------------
\* A child that writes a line in two parts, the newline last.  stdout is an
\* unbuffered pipe: select() reports it readable as soon as it holds a byte,
\* and readline() then waits for the newline or the end of the file.

\* What a reader sees of a line whose newline is missing: its text, its
\* text cut after the first token, or its text cut inside the first token.
Fragments(line) == {line, [line EXCEPT !.toks = <<line.toks[1]>>],
                    [line EXCEPT !.toks = <<"...">>]}

\* The child writes the first part of its next line.
ChildPartial ==
    /\ UNCHANGED envVars
    /\ alive
    /\ todo # <<>>
    /\ frag = <<>>
    /\ \E f \in Fragments(Head(todo)) : frag' = <<f>>
    /\ UNCHANGED <<threadVars, process, constructed, registry, childVars, sent, ncalls,
                   killFailed, nread, ndeliv, blocked>>

\* The child writes the rest of the line and its newline.
ChildComplete ==
    /\ UNCHANGED envVars
    /\ alive
    /\ todo # <<>>
    /\ frag # <<>>
    /\ out' = Append(out, [Head(todo) EXCEPT !.k = nread + Len(out) + 1])
    /\ todo' = Tail(todo)
    /\ frag' = <<>>
    /\ UNCHANGED <<threadVars, process, constructed, registry, alive, stdinOpen, eof,
                   nproc, sent, ncalls, killFailed, nread, ndeliv, blocked>>

\* select() reports the unterminated line; readline() is called and waits.
ReadBlock(t) ==
    /\ UNCHANGED envVars
    /\ pc[t] \in ReadPcs
    /\ t \notin blocked
    /\ process # "None"
    /\ out = <<>>
    /\ frag # <<>>
    /\ ~(~alive /\ eof)
    /\ blocked' = blocked \cup {t}
    /\ UNCHANGED <<threadVars, process, constructed, registry, childVars, sent, ncalls,
                   killFailed, nread, ndeliv, frag>>

\* The child has exited and its stdout is at end-of-file: readline() returns
\* the unterminated line as it is.
ReadFragment(t) ==
    /\ UNCHANGED envVars
    /\ pc[t] \in ReadPcs
    /\ process # "None"
    /\ out = <<>>
    /\ frag # <<>>
    /\ ~alive /\ eof
    /\ nread' = nread + 1
    /\ blocked' = blocked \ {t}
    /\ frag' = <<>>
    /\ LET line == [frag[1] EXCEPT !.k = nread + 1]
           rs == Append(responses[t], line)
       IN /\ responses' = [responses EXCEPT ![t] = rs]
          /\ ndeliv' = IF StartsWith(line, Until(pc[t])) THEN ndeliv + Len(rs)
                        ELSE ndeliv
          /\ IF StartsWith(line, Until(pc[t]))
             THEN Returned(t, rs)
             ELSE UNCHANGED <<pc, op, result, exc, broken>>
          /\ ended' = [ended EXCEPT ![t] = IF StartsWith(line, Until(pc[t]))
                                           THEN "prefix" ELSE @]
    /\ got' = got \cup {frag[1].toks[1]}
    /\ UNCHANGED <<call, process, constructed, registry, childVars, sent, ncalls,
                   killFailed>>

HangStep(t) == Step(t) \/ ReadBlock(t) \/ ReadFragment(t)

NextHang == HangStep("t1") \/ Child \/ ChildPartial \/ ChildComplete

\* The caller's thread keeps running; nothing obliges the child to go on.
SpecHang == Init /\ [][NextHang]_vars /\ WF_vars(HangStep("t1"))

\* The same caller with the child of Spec, which writes whole lines only.
SpecLive == Init /\ [][Next]_vars /\ WF_vars(Step("t1"))

----------------------------------------------------------------------------
\* Several threads call get_best_move on one Ready instance.

\* The lines the constructor writes, in the order of _initialize_engine.
Handshake ==
    <<CommandAt("init_uci", 0), CommandAt("init_opt1", 0), CommandAt("init_opt2", 0),
      CommandAt("init_isready", 0)>>

\* The instance as a successful constructor leaves it, the child idle.
InitReady ==
    /\ pc = [t \in AllThreads |-> "idle"]
    /\ op = [t \in AllThreads |-> "none"]
    /\ responses = [t \in AllThreads |-> <<>>]
    /\ exc = [t \in AllThreads |-> <<>>]
    /\ call = [t \in AllThreads |-> 0]
    /\ result = [t \in AllThreads |-> NoResult]
    /\ process = "Popen"
    /\ constructed = TRUE
    /\ registry = {Self}
    /\ alive = TRUE
    /\ stdinOpen = TRUE
    /\ eof = FALSE
    /\ sent = Handshake
    /\ nproc = Len(Handshake)
    /\ todo = <<>>
    /\ out = <<>>
    /\ ncalls = 0
    /\ killFailed = FALSE
    /\ got = {"id", "uciok", "readyok"}
    /\ ended = [t \in AllThreads |-> ""]
    /\ broken = FALSE
    /\ nread = 3
    /\ ndeliv = 3
    /\ frag = <<>>
    /\ blocked = {}
    /\ reqs = <<>>
    /\ request \in Requests
    /\ RegistryIdle
    /\ ServiceIdle

GbmStep(t) ==
    \/ GbmBegin(t)
    \/ Send(t) \/ ReadEnter(t) \/ ReadTimeout(t) \/ ReadLine(t) \/ ReadTerminated(t)

NextConc == (\E t \in AllThreads : GbmStep(t)) \/ Child

SpecConc == InitReady /\ [][NextConc]_vars

\* get_best_move on a Ready instance whose child writes its lines in parts.
NextFrag ==
    \/ GbmStep("t1") \/ ReadBlock("t1") \/ ReadFragment("t1")
    \/ Child \/ ChildPartial \/ ChildComplete

SpecFrag == InitReady /\ [][NextFrag]_vars


----------------------------------------------------------------------------
\* EngineRegistry and StockfishEngine.stop() for several instances and
\* several callers.  A caller's call stack is a sequence of frames, the
\* running one last.  stop() is followed statement by statement; of the child
\* it keeps what stop() can see: whether it runs, and whether it exits when it
\* is told to quit.

exitVars == <<hooks, globalEngine, phase, exitCode, exitBy, exitAt, nsig>>
sweepVars == <<swept, sweepCalls, lastSweep, lifeStops>>

Top(t) == stack[t][Len(stack[t])]
At(t, f, p) == stack[t] # <<>> /\ Top(t).fn = f /\ Top(t).pc = p
Pop(stk) == SubSeq(stk, 1, Len(stk) - 1)
Moved(stk, p) == [stk EXCEPT ![Len(stk)].pc = p]

\* The running frame moves on, calls f and continues at p, or returns.
Goto(t, p) == stack' = [stack EXCEPT ![t] = Moved(@, p)]
Call(t, p, f) == stack' = [stack EXCEPT ![t] = Append(Moved(@, p), f)]
Return(t) == stack' = [stack EXCEPT ![t] = Pop(@)]

\* shutdown_all without the try/except around engine.stop().
CatchesNothing(f) == FALSE

\* `except Exception as e:` in the loop of shutdown_all is the only handler
\* on the way of an exception that leaves stop() or unregister().
Catches(f) == f = "shutdown_all"

Handlers(stk) == {i \in 1..(Len(stk) - 1) : Catches(stk[i].fn)}
Innermost(S) == CHOOSE i \in S : \A j \in S : j <= i

\* The running frame of thread t raises x: the innermost handler below it
\* logs it and goes on; without one, x leaves the operation the thread called.
Throw(t, x) ==
    LET stk == stack[t]
        hs == Handlers(stk)
    IN IF hs # {}
       THEN /\ stack' = [stack EXCEPT ![t] =
                           [SubSeq(stk, 1, Innermost(hs))
                               EXCEPT ![Innermost(hs)].caught = @ + 1]]
            /\ UNCHANGED raised
       ELSE /\ stack' = [stack EXCEPT ![t] = <<>>]
            /\ raised' = [raised EXCEPT ![t] = @ \cup {[exc |-> x, from |-> stk[1].fn]}]

\* A thread with nothing running starts an operation.
Idle(t) == stack[t] = <<>> /\ nops[t] < MaxOps /\ phase = "running"

\* EngineRegistry.register(engine), as the constructor of a new instance
\* calls it: cls._engines.add(engine).
RegistryRegister(t) ==
    /\ Idle(t)
    /\ \E e \in fresh :
         /\ registry' = registry \cup {e}
         /\ fresh' = fresh \ {e}
    /\ nops' = [nops EXCEPT ![t] = @ + 1]
    /\ UNCHANGED <<wrapperVars, stack, proc, run, quits, killFailed, raised, sweepVars,
                   exitVars>>

\* A thread calls EngineRegistry.unregister(engine), registered or not.
CallUnregister(t) ==
    /\ Idle(t)
    /\ \E e \in Insts :
         stack' = [stack EXCEPT ![t] = <<Frame("unregister", "unreg_test", e)>>]
    /\ nops' = [nops EXCEPT ![t] = @ + 1]
    /\ UNCHANGED <<wrapperVars, registry, proc, run, quits, killFailed, fresh, raised,
                   sweepVars, exitVars>>

\* A thread calls stop() on an instance it was given.
CallStop(t) ==
    /\ Idle(t)
    /\ \E e \in Insts \ fresh :
         stack' = [stack EXCEPT ![t] = <<Frame("stop", "stop_test", e)>>]
    /\ nops' = [nops EXCEPT ![t] = @ + 1]
    /\ UNCHANGED <<wrapperVars, registry, proc, run, quits, killFailed, fresh, raised,
                   sweepVars, exitVars>>

\* A thread calls EngineRegistry.shutdown_all().
CallShutdownAll(t) ==
    /\ Idle(t)
    /\ stack' = [stack EXCEPT ![t] = <<Frame("shutdown_all", "sa_snap", "")>>]
    /\ nops' = [nops EXCEPT ![t] = @ + 1]
    /\ UNCHANGED <<wrapperVars, registry, proc, run, quits, killFailed, fresh, raised,
                   sweepVars, exitVars>>

\* unregister: `if engine in cls._engines:`
UnregisterTest(t) ==
    /\ At(t, "unregister", "unreg_test")
    /\ IF Top(t).inst \in registry THEN Goto(t, "unreg_remove") ELSE Return(t)
    /\ UNCHANGED <<wrapperVars, registry, proc, run, quits, killFailed, fresh, raised,
                   nops, sweepVars, exitVars>>

\* unregister: `cls._engines.remove(engine)`, a KeyError when it is not there.
UnregisterRemove(t) ==
    /\ At(t, "unregister", "unreg_remove")
    /\ IF Top(t).inst \in registry
       THEN /\ registry' = registry \ {Top(t).inst}
            /\ Return(t)
            /\ UNCHANGED raised
       ELSE /\ Throw(t, "KeyError")
            /\ UNCHANGED registry
    /\ UNCHANGED <<wrapperVars, proc, run, quits, killFailed, fresh, nops, sweepVars,
                   exitVars>>

\* stop: `if self.process:`
InstStopTest(t) ==
    /\ At(t, "stop", "stop_test")
    /\ Top(t).inst \in Engines
    /\ IF proc[Top(t).inst] # "None" THEN Goto(t, "stop_poll") ELSE Return(t)
    /\ UNCHANGED <<wrapperVars, registry, proc, run, quits, killFailed, fresh, raised,
                   nops, sweepVars, exitVars>>

\* stop() of a Stoppable that is no StockfishEngine: it returns or raises, and
\* leaves the registry alone.
StubStop(t) ==
    /\ At(t, "stop", "stop_test")
    /\ Top(t).inst = Stub
    /\ \/ Return(t) /\ UNCHANGED raised
       \/ Throw(t, "Stop error")
    /\ UNCHANGED <<wrapperVars, registry, proc, run, quits, killFailed, fresh, nops,
                   sweepVars, exitVars>>

\* stop: `if self.process.poll() is None:`; with the handle cleared meanwhile
\* the attribute error goes to the except branch.
InstStopPoll(t) ==
    /\ At(t, "stop", "stop_poll")
    /\ Goto(t, IF proc[Top(t).inst] = "None" THEN StopExcept
               ELSE IF run[Top(t).inst] THEN "stop_quit" ELSE "stop_finally")
    /\ UNCHANGED <<wrapperVars, registry, proc, run, quits, killFailed, fresh, raised,
                   nops, sweepVars, exitVars>>

\* stop: self._send_command("quit"): written, or a broken pipe, or the child
\* is no longer running.
InstStopQuit(t) ==
    /\ At(t, "stop", "stop_quit")
    /\ \/ /\ proc[Top(t).inst] # "None" /\ run[Top(t).inst]
          /\ quits' = [quits EXCEPT ![Top(t).inst] = @ + 1]
          /\ Goto(t, "stop_wait")
       \/ /\ Goto(t, StopExcept)
          /\ UNCHANGED quits
    /\ UNCHANGED <<wrapperVars, registry, proc, run, killFailed, fresh, raised, nops,
                   sweepVars, exitVars>>

\* stop: self.process.wait(timeout=5.0): the child exits in time on `quit`,
\* or it does not.
InstStopWait(t) ==
    /\ At(t, "stop", "stop_wait")
    /\ \/ /\ proc[Top(t).inst] # "None"
          /\ run' = [run EXCEPT ![Top(t).inst] = FALSE]
          /\ Goto(t, "stop_finally")
       \/ /\ proc[Top(t).inst] = "None" \/ run[Top(t).inst]
          /\ Goto(t, StopExcept)
          /\ UNCHANGED run
    /\ UNCHANGED <<wrapperVars, registry, proc, quits, killFailed, fresh, raised, nops,
                   sweepVars, exitVars>>

\* stop: self.process.kill(); its own failure is logged and swallowed.
InstStopKill(t) ==
    /\ At(t, "stop", "stop_kill")
    /\ \/ /\ proc[Top(t).inst] # "None"
          /\ run' = [run EXCEPT ![Top(t).inst] = FALSE]
          /\ Goto(t, "stop_finally")
          /\ UNCHANGED killFailed
       \/ /\ proc[Top(t).inst] = "None" \/ run[Top(t).inst]
          /\ killFailed' = (killFailed \/ proc[Top(t).inst] # "None")
          /\ Goto(t, KillExcept)
          /\ UNCHANGED run
    /\ UNCHANGED <<wrapperVars, registry, proc, quits, fresh, raised, nops, sweepVars,
                   exitVars>>

\* InstStopFinally without `EngineRegistry.unregister(self)`.
InstStopFinallyKeepsRegistered(t) ==
    /\ At(t, "stop", "stop_finally")
    /\ proc' = [proc EXCEPT ![Top(t).inst] = "None"]
    /\ Goto(t, "stop_done")
    /\ UNCHANGED <<wrapperVars, registry, run, quits, killFailed, fresh, raised, nops,
                   sweepVars, exitVars>>

\* stop: finally: self.process = None; EngineRegistry.unregister(self)
InstStopFinally(t) ==
    /\ At(t, "stop", "stop_finally")
    /\ proc' = [proc EXCEPT ![Top(t).inst] = "None"]
    /\ Call(t, "stop_done", Frame("unregister", "unreg_test", Top(t).inst))
    /\ UNCHANGED <<wrapperVars, registry, run, quits, killFailed, fresh, raised, nops,
                   sweepVars, exitVars>>

\* stop() returns.
InstStopDone(t) ==
    /\ At(t, "stop", "stop_done")
    /\ Return(t)
    /\ UNCHANGED <<wrapperVars, registry, proc, run, quits, killFailed, fresh, raised,
                   nops, sweepVars, exitVars>>

\* shutdown_all: `for engine in list(cls._engines):` takes its snapshot.
ShutdownAllSnapshot(t) ==
    /\ At(t, "shutdown_all", "sa_snap")
    /\ stack' = [stack EXCEPT ![t] =
                    [@ EXCEPT ![Len(@)] =
                        [Top(t) EXCEPT !.pc = "sa_loop", !.snap = registry,
                                       !.left = registry]]]
    /\ UNCHANGED <<wrapperVars, registry, proc, run, quits, killFailed, fresh, raised,
                   nops, sweepVars, exitVars>>

\* shutdown_all: the loop takes the next instance of the snapshot, in the
\* set's order, and calls its stop().
ShutdownAllStop(t) ==
    /\ At(t, "shutdown_all", "sa_loop")
    /\ \E e \in Top(t).left :
         /\ stack' = [stack EXCEPT ![t] =
                         Append([@ EXCEPT ![Len(@)] =
                                    [Top(t) EXCEPT !.left = @ \ {e},
                                                   !.done = Append(@, e)]],
                                Frame("stop", "stop_test", e))]
         /\ sweepCalls' = [sweepCalls EXCEPT ![e] = @ + 1]
    /\ UNCHANGED <<wrapperVars, registry, proc, run, quits, killFailed, fresh, raised,
                   nops, swept, lastSweep, lifeStops, exitVars>>

\* shutdown_all returns when the snapshot is exhausted; a signal handler that
\* called it goes on.
ShutdownAllReturn(t) ==
    /\ At(t, "shutdown_all", "sa_loop")
    /\ Top(t).left = {}
    /\ LET f == Top(t)
           below == Pop(stack[t])
       IN /\ stack' = [stack EXCEPT ![t] =
                          IF below # <<>> /\ below[Len(below)].fn = "graceful_shutdown"
                          THEN [below EXCEPT ![Len(below)] =
                                   [@ EXCEPT !.ret = TRUE, !.snap = f.snap,
                                             !.done = f.done]]
                          ELSE below]
          /\ lastSweep' = [lastSweep EXCEPT ![t] =
                              [snap |-> f.snap, done |-> f.done, caught |-> f.caught,
                               n |-> @.n + 1]]
          /\ swept' = swept \cup f.snap
    /\ UNCHANGED <<wrapperVars, registry, proc, run, quits, killFailed, fresh, raised,
                   nops, sweepCalls, lifeStops, exitVars>>

\* The steps inside unregister, StockfishEngine.stop and shutdown_all.
InstStep(t) ==
    \/ UnregisterTest(t) \/ UnregisterRemove(t)
    \/ InstStopTest(t) \/ InstStopPoll(t) \/ InstStopQuit(t) \/ InstStopWait(t)
    \/ InstStopKill(t) \/ InstStopFinally(t) \/ InstStopDone(t)
    \/ ShutdownAllSnapshot(t) \/ ShutdownAllStop(t) \/ ShutdownAllReturn(t)

RegStep(t) ==
    \/ RegistryRegister(t) \/ CallUnregister(t) \/ CallStop(t) \/ CallShutdownAll(t)
    \/ StubStop(t)
    \/ InstStep(t)

\* The instances constructed and their children running; those of `live`
\* are registered, and every thread has started `started` operations.
RegistryWith(live, started) ==
    /\ WrapperIdle
    /\ request = Request(StartFen, FALSE, <<>>)
    /\ registry = live
    /\ fresh = Insts \ live
    /\ nops = [t \in AllThreads |-> started]
    /\ stack = [t \in AllThreads |-> <<>>]
    /\ proc = [e \in Insts |-> IF e \in Engines THEN "Popen" ELSE "None"]
    /\ run = [e \in Insts |-> e \in Engines]
    /\ quits = [e \in Insts |-> 0]
    /\ raised = [t \in AllThreads |-> {}]
    /\ swept = {}
    /\ sweepCalls = [e \in Insts |-> 0]
    /\ lastSweep = [t \in AllThreads |-> NoSweep]
    /\ lifeStops = [e \in Insts |-> 0]
    /\ hooks = 0
    /\ globalEngine = "None"
    /\ phase = "running"
    /\ exitCode = 0
    /\ exitBy = ""
    /\ exitAt = ""
    /\ nsig = 0
    /\ ServiceIdle

\* One thread uses the registry, on which nothing is registered yet.
InitReg == RegistryWith({}, 0)

NextReg == RegStep("t1")

SpecReg == InitReg /\ [][NextReg]_vars

\* Two threads use the registry at the same time, MaxConcOps operations
\* each, once the two engines are registered.
InitRegConc == RegistryWith(Engines, MaxOps - MaxConcOps)

NextRegConc == \E t \in AllThreads : RegStep(t)

SpecRegConc == InitRegConc /\ [][NextRegConc]_vars

----------------------------------------------------------------------------
\* The service process (main.py) and its shutdown hooks (shutdown.py), all on
\* the main thread: the hooks are installed, an engine is constructed and its
\* reference dropped, the lifespan constructs the engine it serves with and
\* stops it when the server ends.  A termination signal runs graceful_shutdown
\* on top of whatever the main thread is doing, a second one on top of the
\* first.  Signals are delivered until the process starts to exit; the
\* constructor is reduced to its spawn, its handshake and its registration.

ExitSweep == <<Frame("shutdown_all", "sa_snap", "")>>

\* setup_environment that goes on to the engine without installing any hook.
SetupWithoutHooks(t) ==
    /\ stack[t] = <<>> /\ hooks = 0 /\ phase = "running"
    /\ stack' = [stack EXCEPT ![t] = <<Frame("main", "main_setup", "")>>]
    /\ UNCHANGED <<wrapperVars, registry, proc, run, quits, killFailed, fresh, raised,
                   nops, sweepVars, hooks, globalEngine, phase, exitCode, exitBy, exitAt,
                   nsig>>

\* setup_signal_handlers(): both handlers and the atexit hook.
SetupSignalHandlers(t) ==
    /\ stack[t] = <<>> /\ hooks = 0 /\ phase = "running"
    /\ hooks' = hooks + 1
    /\ stack' = [stack EXCEPT ![t] = <<Frame("main", "main_setup", "")>>]
    /\ UNCHANGED <<wrapperVars, registry, proc, run, quits, killFailed, fresh, raised,
                   nops, sweepVars, globalEngine, phase, exitCode, exitBy, exitAt, nsig>>

\* setup_environment: `_engine = StockfishEngine()`
MainSetupNew(t) ==
    /\ At(t, "main", "main_setup")
    /\ Call(t, "main_setup_done", Frame("new", "new_spawn", "e1"))
    /\ UNCHANGED <<wrapperVars, registry, proc, run, quits, killFailed, fresh, raised,
                   nops, sweepVars, exitVars>>

\* The constructor returned: the global refers to the instance.
MainSetupDone(t) ==
    /\ At(t, "main", "main_setup_done")
    /\ globalEngine' = "e1"
    /\ Goto(t, "main_drop")
    /\ UNCHANGED <<wrapperVars, registry, proc, run, quits, killFailed, fresh, raised,
                   nops, sweepVars, hooks, phase, exitCode, exitBy, exitAt, nsig>>

\* The module goes on to `_engine: Optional[StockfishEngine] = None`.
MainDropEngine(t) ==
    /\ At(t, "main", "main_drop")
    /\ globalEngine' = "None"
    /\ Goto(t, "main_lifespan")
    /\ UNCHANGED <<wrapperVars, registry, proc, run, quits, killFailed, fresh, raised,
                   nops, sweepVars, hooks, phase, exitCode, exitBy, exitAt, nsig>>

\* lifespan: `if not _engine: _engine = StockfishEngine()`
LifespanEnter(t) ==
    /\ At(t, "main", "main_lifespan")
    /\ IF globalEngine = "None"
       THEN Call(t, "main_lifespan_done", Frame("new", "new_spawn", "e2"))
       ELSE Goto(t, "main_serve")
    /\ UNCHANGED <<wrapperVars, registry, proc, run, quits, killFailed, fresh, raised,
                   nops, sweepVars, exitVars>>

\* The lifespan's constructor returned; the server serves from here on.
LifespanEntered(t) ==
    /\ At(t, "main", "main_lifespan_done")
    /\ globalEngine' = "e2"
    /\ Goto(t, "main_serve")
    /\ UNCHANGED <<wrapperVars, registry, proc, run, quits, killFailed, fresh, raised,
                   nops, sweepVars, hooks, phase, exitCode, exitBy, exitAt, nsig>>

\* lifespan, finally: `if _engine: _engine.stop()`
LifespanFinally(t) ==
    /\ At(t, "main", "main_serve")
    /\ IF globalEngine # "None"
       THEN /\ Call(t, "main_stopped", Frame("stop", "stop_test", globalEngine))
            /\ lifeStops' = [lifeStops EXCEPT ![globalEngine] = @ + 1]
       ELSE /\ Goto(t, "main_done")
            /\ UNCHANGED lifeStops
    /\ UNCHANGED <<wrapperVars, registry, proc, run, quits, killFailed, fresh, raised,
                   nops, swept, sweepCalls, lastSweep, exitVars>>

\* The end of the lifespan that leaves the handle as it is.
LifespanExitKeepsHandle(t) ==
    /\ At(t, "main", "main_stopped")
    /\ Goto(t, "main_done")
    /\ UNCHANGED <<wrapperVars, registry, proc, run, quits, killFailed, fresh, raised,
                   nops, sweepVars, exitVars>>

\* lifespan, finally: `_engine = None` after stop() has returned.
LifespanExit(t) ==
    /\ At(t, "main", "main_stopped")
    /\ globalEngine' = "None"
    /\ Goto(t, "main_done")
    /\ UNCHANGED <<wrapperVars, registry, proc, run, quits, killFailed, fresh, raised,
                   nops, sweepVars, hooks, phase, exitCode, exitBy, exitAt, nsig>>

\* The server is over and the interpreter exits normally, which runs the
\* atexit hook.
NormalExit(t) ==
    /\ At(t, "main", "main_done")
    /\ UNCHANGED globalEngine
    /\ phase' = "atexit"
    /\ exitCode' = 0
    /\ exitBy' = "normal"
    /\ exitAt' = "main_done"
    /\ stack' = [stack EXCEPT ![t] = ExitSweep]
    /\ UNCHANGED <<wrapperVars, registry, proc, run, quits, killFailed, fresh, raised,
                   nops, sweepVars, hooks, nsig>>

\* _initialize_engine: _get_engine_path() and subprocess.Popen; a failure
\* goes to `except Exception: self.stop()`.
NewSpawn(t) ==
    /\ At(t, "new", "new_spawn")
    /\ \/ /\ proc' = [proc EXCEPT ![Top(t).inst] = "Popen"]
          /\ run' = [run EXCEPT ![Top(t).inst] = TRUE]
          /\ Goto(t, "new_handshake")
       \/ /\ Call(t, "new_raise", Frame("stop", "stop_test", Top(t).inst))
          /\ UNCHANGED <<proc, run>>
    /\ UNCHANGED <<wrapperVars, registry, quits, killFailed, fresh, raised, nops,
                   sweepVars, exitVars>>

\* _initialize_engine: the handshake succeeds, or it fails (a timeout, or the
\* child has exited) and goes to `except Exception: self.stop()`.
NewHandshake(t) ==
    /\ At(t, "new", "new_handshake")
    /\ \/ /\ run[Top(t).inst]
          /\ Goto(t, "new_register")
          /\ UNCHANGED run
       \/ /\ \E dies \in BOOLEAN :
               run' = [run EXCEPT ![Top(t).inst] = @ /\ ~dies]
          /\ Call(t, "new_raise", Frame("stop", "stop_test", Top(t).inst))
    /\ UNCHANGED <<wrapperVars, registry, proc, quits, killFailed, fresh, raised, nops,
                   sweepVars, exitVars>>

\* __init__: EngineRegistry.register(self), and the constructor returns.
NewRegister(t) ==
    /\ At(t, "new", "new_register")
    /\ registry' = registry \cup {Top(t).inst}
    /\ fresh' = fresh \ {Top(t).inst}
    /\ Return(t)
    /\ UNCHANGED <<wrapperVars, proc, run, quits, killFailed, raised, nops, sweepVars,
                   exitVars>>

\* _initialize_engine: `raise StockfishError(...)` after self.stop().
\* setup_environment catches it and goes on; the lifespan does not, and the
\* process ends with an error.
NewRaise(t) ==
    /\ At(t, "new", "new_raise")
    /\ LET below == Pop(stack[t]) IN
       IF below[Len(below)].pc = "main_setup_done"
       THEN /\ stack' = [stack EXCEPT ![t] = Moved(below, "main_drop")]
            /\ UNCHANGED <<phase, exitCode, exitBy, exitAt>>
       ELSE /\ stack' = [stack EXCEPT ![t] = ExitSweep]
            /\ phase' = "atexit"
            /\ exitCode' = 1
            /\ exitBy' = "error"
            /\ exitAt' = below[Len(below)].pc
    /\ UNCHANGED <<wrapperVars, registry, proc, run, quits, killFailed, fresh, raised,
                   nops, sweepVars, hooks, globalEngine, nsig>>

\* SIGINT or SIGTERM is delivered, at most n times: the interpreter runs the
\* handler on the main thread, on top of what runs there.
Signal(t, n) ==
    /\ hooks > 0 /\ phase = "running" /\ stack[t] # <<>>
    /\ nsig < n
    /\ nsig' = nsig + 1
    /\ stack' = [stack EXCEPT ![t] = Append(@, Frame("graceful_shutdown", "gs_call", ""))]
    /\ UNCHANGED <<wrapperVars, registry, proc, run, quits, killFailed, fresh, raised,
                   nops, sweepVars, hooks, globalEngine, phase, exitCode, exitBy, exitAt>>

\* graceful_shutdown that exits without EngineRegistry.shutdown_all().
GracefulShutdownNoSweep(t) ==
    /\ At(t, "graceful_shutdown", "gs_call")
    /\ Goto(t, "gs_exit")
    /\ UNCHANGED <<wrapperVars, registry, proc, run, quits, killFailed, fresh, raised,
                   nops, sweepVars, exitVars>>

\* graceful_shutdown: EngineRegistry.shutdown_all()
GracefulShutdown(t) ==
    /\ At(t, "graceful_shutdown", "gs_call")
    /\ Call(t, "gs_exit", ExitSweep[1])
    /\ UNCHANGED <<wrapperVars, registry, proc, run, quits, killFailed, fresh, raised,
                   nops, sweepVars, exitVars>>

\* The statements of stop() inside its try block, which its finally follows.
TryPcs == {"stop_poll", "stop_quit", "stop_wait", "stop_kill", "stop_finally"}

\* The instances whose stop() an exception finds inside its try block.
Unwound(stk) ==
    {stk[i].inst : i \in {j \in 1..Len(stk) : stk[j].fn = "stop" /\ stk[j].pc \in TryPcs}}

\* graceful_shutdown: sys.exit(0).  SystemExit is no Exception: it passes
\* every `except Exception` on the stack, runs the finally block of each
\* stop() it interrupts, and ends the program; the atexit hook runs next.
\* (The finally block of the lifespan finds nothing left to do: the sweep
\* has stopped the engine it serves with, or `_engine` is not yet set.)
SysExit(t) ==
    /\ At(t, "graceful_shutdown", "gs_exit")
    /\ proc' = [e \in Insts |-> IF e \in Unwound(stack[t]) THEN "None" ELSE proc[e]]
    /\ registry' = registry \ Unwound(stack[t])
    /\ phase' = "atexit"
    /\ exitCode' = 0
    /\ exitBy' = "signal"
    /\ exitAt' = stack[t][1].pc
    /\ stack' = [stack EXCEPT ![t] = ExitSweep]
    /\ UNCHANGED <<wrapperVars, run, quits, killFailed, fresh, raised, nops, sweepVars,
                   hooks, globalEngine, nsig>>

\* The atexit hook has returned: the process is gone.
ProcessExit(t) ==
    /\ phase = "atexit" /\ stack[t] = <<>>
    /\ phase' = "exited"
    /\ UNCHANGED <<wrapperVars, registry, stack, proc, run, quits, killFailed, fresh,
                   raised, nops, sweepVars, hooks, globalEngine, exitCode, exitBy,
                   exitAt, nsig>>

MainStep(t, n) ==
    \/ SetupSignalHandlers(t) \/ MainSetupNew(t) \/ MainSetupDone(t)
    \/ MainDropEngine(t) \/ LifespanEnter(t) \/ LifespanEntered(t)
    \/ LifespanFinally(t) \/ LifespanExit(t) \/ NormalExit(t)
    \/ NewSpawn(t) \/ NewHandshake(t) \/ NewRegister(t) \/ NewRaise(t)
    \/ Signal(t, n) \/ GracefulShutdown(t) \/ SysExit(t) \/ ProcessExit(t)
    \/ InstStep(t)

\* The process starts: no instance, no hook, nothing registered.
InitShut ==
    /\ WrapperIdle
    /\ registry = {}
    /\ request = Request(StartFen, FALSE, <<>>)
    /\ RegistryIdle
    /\ ServiceIdle

NextShut == MainStep("t1", MaxSignals)

SpecShut == InitShut /\ [][NextShut]_vars

\* The same process, with signals that arrive while a handler is running.
NextShutRepeat == MainStep("t1", MaxSignals + MaxRepeats)

SpecShutRepeat == InitShut /\ [][NextShutRepeat]_vars

----------------------------------------------------------------------------
\* The engine path is resolved, once, in an environment and over a file
\* system of any kind.

GetEnginePathCall ==
    /\ resolved = NoPath
    /\ resolved' = GetEnginePath(environ, files, system)
    /\ UNCHANGED <<coreVars, regVars, environ, system, files, healthEngine, probe,
                   reply>>

InitPath ==
    /\ WrapperIdle
    /\ registry = {}
    /\ request = Request(StartFen, FALSE, <<>>)
    /\ RegistryIdle
    /\ environ \in Environs
    /\ system \in Systems
    /\ files \in [AllPaths -> FileStates]
    /\ resolved = NoPath
    /\ healthEngine = "None"
    /\ probe = NoProbe
    /\ reply = NoReply

NextPath == GetEnginePathCall

SpecPath == InitPath /\ [][NextPath]_vars

----------------------------------------------------------------------------
\* The service while its server runs: the lifespan is entered with the handle
\* `_engine` as the start-up left it (None, or the engine that
\* setup_environment constructed), requests to the tools and to the health
\* endpoint are served, the child may die, and the lifespan ends.  A tool
\* runs to its end on the event loop before anything else does.

\* The server is serving requests: inside the lifespan, or after it.
Serving(t) ==
    /\ phase = "running"
    /\ At(t, "main", "main_serve") \/ At(t, "main", "main_done")

GetBestMoveTool(t) ==
    /\ Serving(t)
    /\ \E fen \in {StartingFen, CheckmateFen} :
          reply' \in GetBestMove(globalEngine, fen)
    /\ UNCHANGED <<coreVars, regVars, environ, system, files, resolved, healthEngine,
                   probe>>

ValidateMoveTool(t) ==
    /\ Serving(t)
    /\ \E fen \in Fens, move \in Moves : reply' = ValidateMove(fen, move)
    /\ UNCHANGED <<coreVars, regVars, environ, system, files, resolved, healthEngine,
                   probe>>

GetLegalMovesTool(t) ==
    /\ Serving(t)
    /\ \E fen \in Fens : reply' = GetLegalMoves(fen)
    /\ UNCHANGED <<coreVars, regVars, environ, system, files, resolved, healthEngine,
                   probe>>

GetGameStatusTool(t) ==
    /\ Serving(t)
    /\ \E fen \in Fens : reply' = GetGameStatus(fen)
    /\ UNCHANGED <<coreVars, regVars, environ, system, files, resolved, healthEngine,
                   probe>>

\* set_engine(engine): None, or an instance that was constructed.
SetEngine(t) ==
    /\ Serving(t)
    /\ \E h \in {"None"} \cup (Engines \ fresh) :
          /\ h # healthEngine
          /\ healthEngine' = h
    /\ UNCHANGED <<coreVars, regVars, environ, system, files, resolved, probe, reply>>

\* GET /health
HealthCheckCall(t) ==
    /\ Serving(t)
    /\ \E o \in (IF healthEngine = "None" THEN {NoCheck}
                 ELSE ReadyOutcomes(healthEngine)) :
          probe' = HealthCheck(healthEngine, o)
    /\ UNCHANGED <<coreVars, regVars, environ, system, files, resolved, healthEngine,
                   reply>>

\* The child of an engine exits on its own while the server is serving.
ChildDies(t) ==
    /\ phase = "running" /\ At(t, "main", "main_serve")
    /\ \E e \in Engines :
          /\ proc[e] = "Popen" /\ run[e]
          /\ run' = [run EXCEPT ![e] = FALSE]
    /\ UNCHANGED <<wrapperVars, registry, stack, proc, quits, killFailed, fresh, raised,
                   nops, sweepVars, exitVars>>

SvcStep(t) ==
    \/ LifespanEnter(t) \/ LifespanEntered(t) \/ LifespanFinally(t)
    \/ LifespanExit(t) \/ NormalExit(t) \/ ProcessExit(t)
    \/ NewSpawn(t) \/ NewHandshake(t) \/ NewRegister(t) \/ NewRaise(t)
    \/ InstStep(t)
    \/ GetBestMoveTool(t) \/ ValidateMoveTool(t) \/ GetLegalMovesTool(t)
    \/ GetGameStatusTool(t) \/ SetEngine(t) \/ HealthCheckCall(t) \/ ChildDies(t)

\* The lifespan is about to be entered; the start-up has constructed and
\* registered an engine or has failed to, and the handle is that engine or
\* None.
InitSvc ==
    /\ WrapperIdle
    /\ request = Request(StartFen, FALSE, <<>>)
    /\ ServiceIdle
    /\ \E live \in {{}, {"e1"}} :
          /\ registry = live
          /\ fresh = Insts \ live
          /\ proc = [e \in Insts |-> IF e \in live THEN "Popen" ELSE "None"]
          /\ run = [e \in Insts |-> e \in live]
          /\ globalEngine \in {"None"} \cup live
    /\ stack = [t \in AllThreads |->
                  IF t = "t1" THEN <<Frame("main", "main_lifespan", "")>> ELSE <<>>]
    /\ quits = [e \in Insts |-> 0]
    /\ raised = [t \in AllThreads |-> {}]
    /\ nops = [t \in AllThreads |-> 0]
    /\ swept = {}
    /\ sweepCalls = [e \in Insts |-> 0]
    /\ lastSweep = [t \in AllThreads |-> NoSweep]
    /\ lifeStops = [e \in Insts |-> 0]
    /\ hooks = 1
    /\ phase = "running"
    /\ exitCode = 0
    /\ exitBy = ""
    /\ exitAt = ""
    /\ nsig = 0

NextSvc == SvcStep("t1")

SpecSvc == InitSvc /\ [][NextSvc]_vars

----------------------------------------------------------------------------
\* Properties.

\* The state SpecConc starts in is one Spec reaches (checked as the negation
\* of an invariant).
ReadyState ==
    /\ pc["t1"] = "idle" /\ constructed /\ process = "Popen" /\ registry = {Self}
    /\ alive /\ stdinOpen /\ ~eof /\ sent = Handshake /\ nproc = Len(Handshake)
    /\ todo = <<>> /\ out = <<>> /\ ncalls = 0 /\ ~killFailed
    /\ got = {"id", "uciok", "readyok"} /\ ~broken

\* A thread has written its position line and has not yet finished reading
\* up to its bestmove line.
InFlight(t) == pc[t] \in MidPcs

\* C1: with any number of concurrent callers of get_best_move on one
\* instance, at most one position/go exchange is in flight at a time: while
\* one caller is between writing its position line and the end of its read,
\* no other caller has written a position line of its own.
C1_OneExchangeInFlight ==
    \A a, b \in AllThreads : (a # b) => ~(InFlight(a) /\ InFlight(b))

\* C2: the move a get_best_move call returns comes from a bestmove line the
\* child wrote in answer to that same call's go command, also when an earlier
\* call timed out or failed while the child kept running.
C2_MoveAnswersOwnGo ==
    \A t \in AllThreads :
        (result[t].op = "gbm" /\ result[t].ok) => result[t].line = result[t].call

\* C3: once a get_best_move has failed by a timeout or a child exit after its
\* position line was sent, the instance is Stopped: no later get_best_move
\* on it returns a move.
C3_FailureStopsInstance ==
    \A t \in AllThreads :
        (pc[t] = "idle" /\ result[t].op = "gbm" /\ result[t].ok) => ~broken


QuitCmd == CommandAt("stop_quit", 0)

\* One step of thread t, as C4 constrains it.
C4Step(t) ==
    /\ (pc[t] = "stop_begin" /\ pc'[t] # "stop_begin" /\ process # "None" /\ alive)
          => pc'[t] = "stop_quit"
    /\ (pc[t] = "stop_quit" /\ pc'[t] # "stop_quit" /\ process # "None" /\ alive
            /\ stdinOpen)
          => sent' = Append(sent, QuitCmd)
    /\ (op[t] = "stop" /\ op'[t] = "none") => (process' = "None" /\ result'[t].ok)
    /\ (pc[t] = "stop_begin" /\ op[t] = "stop" /\ pc'[t] # "stop_begin"
            /\ process = "None")
          => /\ pc'[t] = "idle"
             /\ UNCHANGED <<sent, childVars, killFailed, process, registry>>
    /\ (pc[t] = "idle" /\ ncalls' # ncalls /\ process = "None")
          => /\ result'[t] = Err("gbm", NotInitialized, ncalls')
             /\ pc'[t] = "idle"
             /\ sent' = sent
    /\ (constructed /\ process = "None") => process' = "None"

\* C4: stop() on an instance whose child is alive writes `quit` and leaves
\* the process handle cleared; stop() on a stopped instance returns at once
\* and writes nothing, waits for nothing and kills nothing; the handle stays
\* cleared, and every get_best_move begun after that fails with "Engine not
\* initialized or not running" without writing anything.
C4_StopContract == [][\A t \in AllThreads : C4Step(t)]_vars

\* A second stop() is starting on an instance that a first stop() stopped
\* with `quit`, after a get_best_move has failed on it.
C4_Witness ==
    /\ pc["t1"] = "stop_begin" /\ op["t1"] = "stop"
    /\ constructed /\ process = "None"
    /\ \E i \in 1..Len(sent) : sent[i] = QuitCmd
    /\ result["t1"].op = "gbm" /\ result["t1"].err = NotInitialized

\* C5: whenever stop() has returned, the child is no longer running, whether
\* it exited on `quit`, ignored it or had a broken stdin (a kill() request
\* that itself raised is C6's case).
C5_StopLeavesNoChild ==
    \A t \in AllThreads :
        (pc[t] = "idle" /\ result[t].op = "stop" /\ ~killFailed) => ~alive

\* stop() has returned after the child left `quit` unread and was killed.
C5_Witness ==
    /\ pc["t1"] = "idle" /\ result["t1"].op = "stop"
    /\ ~alive /\ ~killFailed
    /\ Len(sent) > 0 /\ sent[Len(sent)] = QuitCmd /\ nproc < Len(sent)

\* C6: stop() never raises: whatever fails on the way (the write of `quit`,
\* the wait, the kill), it returns normally with the process handle cleared
\* and the instance out of the registry.
C6_StopNeverRaises ==
    \A t \in AllThreads :
        (pc[t] = "idle" /\ result[t].op = "stop")
            => (result[t].ok /\ process = "None" /\ Self \notin registry)

\* stop() has returned although its kill() request raised.
C6_Witness ==
    /\ pc["t1"] = "idle" /\ result["t1"].op = "stop" /\ result["t1"].ok
    /\ killFailed /\ alive

IsHandshakeCmd(c) == c.id = 0 /\ c.toks[1] # "quit"
HandshakeSent == SelectSeq(sent, IsHandshakeCmd)
IsPrefix(a, b) == Len(a) <= Len(b) /\ a = SubSeq(b, 1, Len(a))

\* C7: the constructor writes uci, the setoption lines and isready in that
\* order; setoption and isready are written only after a line starting with
\* uciok was read, and the instance is constructed and registered only after
\* a line starting with readyok was read.
C7_HandshakeOrder ==
    /\ IsPrefix(HandshakeSent, Handshake)
    /\ (Len(HandshakeSent) >= 2 => "uciok" \in got)
    /\ (constructed \/ Self \in registry)
          => (HandshakeSent = Handshake /\ "readyok" \in got)

\* The constructor has just returned a registered instance.
C7_Witness ==
    /\ constructed /\ Self \in registry /\ ncalls = 0
    /\ sent = Handshake /\ "readyok" \in got /\ process = "Popen"

\* C8: when construction fails at any step, the constructor raises, the
\* instance is not registered and no child it spawned is left running
\* (unless the kill() request itself raised).
C8_FailedConstruction ==
    \A t \in AllThreads :
        /\ (op[t] = "new" /\ pc[t] \in {"stop_begin", "stop_quit", "stop_wait",
                                        "stop_kill", "stop_finally"})
              => exc[t] # <<>>
        /\ (pc[t] = "failed")
              => /\ result[t].op = "new" /\ ~result[t].ok
                 /\ Contains(result[t].err, "Failed to initialize engine")
                 /\ ~constructed /\ process = "None" /\ Self \notin registry
                 /\ (~killFailed => ~alive)

\* The constructor has raised after the handshake timed out on a child that
\* was running: the child was sent `quit` and is gone.
C8_Witness ==
    /\ pc["t1"] = "failed" /\ Contains(result["t1"].err, "Timeout waiting for response")
    /\ Len(sent) > 0 /\ sent[Len(sent)] = QuitCmd /\ ~alive /\ ~killFailed

\* Every line the child writes for exchange c has been read.
ExchangeDrained(c) ==
    /\ \A i \in 1..Len(out) : out[i].id # c
    /\ \A i \in 1..Len(todo) : todo[i].id # c
    /\ \A i \in (nproc + 1)..Len(sent) : sent[i].id # c

\* C9: after a get_best_move that returned a move, with the child still
\* running, the instance is Ready again: the handle is set, the instance is
\* registered, and no line of the finished exchange is left unread, so that
\* the next call starts a fresh exchange.
C9_ReadyAfterSuccess ==
    \A t \in AllThreads :
        (pc[t] = "idle" /\ result[t].op = "gbm" /\ result[t].ok /\ alive)
            => /\ process = "Popen"
               /\ Self \in registry
               /\ ExchangeDrained(result[t].call)

\* C10: when the deadline of get_best_move's read passes after one or more
\* info lines and no bestmove line were read, the call fails with an error
\* whose text contains "No best move found".
C10_NoBestMoveOnDeadline ==
    \A t \in AllThreads :
        (/\ pc[t] = "idle" /\ result[t].op = "gbm" /\ ended[t] = "deadline"
         /\ AnyStartsWith(responses[t], "info")
         /\ ~AnyStartsWith(responses[t], "bestmove"))
            => /\ ~result[t].ok
               /\ Contains(result[t].err, "No best move found in engine response")

\* A get_best_move has ended at its deadline with only an info line read.
C10_Witness ==
    /\ pc["t1"] = "idle" /\ result["t1"].op = "gbm" /\ ended["t1"] = "deadline"
    /\ AnyStartsWith(responses["t1"], "info")
    /\ ~AnyStartsWith(responses["t1"], "bestmove")
    /\ result["t1"].err = GbmWrap(NoBestMove)

\* C11: when the line that ends the child's answer is `bestmove (none)`,
\* get_best_move fails: it never returns the literal `(none)` as a move.
C11_NoneIsNoMove ==
    \A t \in AllThreads :
        (result[t].op = "gbm" /\ result[t].ok) => result[t].move # "(none)"

\* The lines written to the child for exchange c, in the order written.
LinesOf(c) == SelectSeq(sent, LAMBDA x : x.id = c)
TokensOf(ls) == [i \in 1..Len(ls) |-> ls[i].toks]

\* The position line the caller's arguments ask for.
ExpectedPosition ==
    IF request.given /\ Len(request.history) > 0
    THEN <<"position", "fen">> \o request.fen \o <<"moves">> \o request.history
    ELSE <<"position", "fen">> \o request.fen

GoLine == <<"go", "movetime", "3000">>

\* C12: get_best_move writes exactly one position line, `position fen <FEN>`
\* when the history is absent or empty and `position fen <FEN> moves <m1>
\* <m2> ...` in the given order when it is not; the `go movetime` line is
\* written next, and both are written before the call reads any line.
C12_PositionLine ==
    /\ \A c \in 1..ncalls :
          IsPrefix(TokensOf(LinesOf(c)), <<ExpectedPosition, GoLine>>)
    /\ \A t \in AllThreads :
          /\ pc[t] = "gbm_pos" => LinesOf(call[t]) = <<>>
          /\ pc[t] = "gbm_go" => TokensOf(LinesOf(call[t])) = <<ExpectedPosition>>
          /\ pc[t] \in {"gbm_enter", "gbm_read"}
                => TokensOf(LinesOf(call[t])) = <<ExpectedPosition, GoLine>>
          /\ (pc[t] = "idle" /\ result[t].op = "gbm" /\ result[t].ok)
                => TokensOf(LinesOf(result[t].call)) = <<ExpectedPosition, GoLine>>

\* A call with a two-move history is reading the child's answer.
C12_Witness ==
    /\ pc["t1"] = "gbm_read" /\ request.history = <<"e2e4", "e7e5">>
    /\ Len(sent) >= 2
    /\ sent[Len(sent) - 1].toks =
          <<"position", "fen">> \o StartFen \o <<"moves", "e2e4", "e7e5">>
    /\ sent[Len(sent)].toks = GoLine

\* C13: a successful get_best_move returns the second token of the first
\* line of its responses that starts with `bestmove`, whatever info lines
\* precede it and whether or not a `ponder <move>` part follows:
\* `bestmove e2e4 ponder e7e5` yields `e2e4`.
C13_SecondToken ==
    \A t \in AllThreads :
        (pc[t] = "idle" /\ result[t].op = "gbm" /\ result[t].ok)
            => \E i \in 1..Len(responses[t]) :
                  /\ StartsWith(responses[t][i], "bestmove")
                  /\ \A j \in 1..(i - 1) : ~StartsWith(responses[t][j], "bestmove")
                  /\ result[t].move = responses[t][i].toks[2]
                  /\ (responses[t][i].toks = <<"bestmove", "e2e4", "ponder", "e7e5">>
                        => result[t].move = "e2e4")

\* A call has returned e2e4 from an info line followed by
\* `bestmove e2e4 ponder e7e5`.
C13_Witness ==
    /\ pc["t1"] = "idle" /\ result["t1"].op = "gbm" /\ result["t1"].ok
    /\ result["t1"].move = "e2e4"
    /\ Len(responses["t1"]) = 2
    /\ StartsWith(responses["t1"][1], "info")
    /\ responses["t1"][2].toks = <<"bestmove", "e2e4", "ponder", "e7e5">>

\* One step, as C14 constrains the size of the registry.
C14Step ==
    /\ (~constructed /\ constructed')
          => Cardinality(registry') = Cardinality(registry) + 1
    /\ \A t \in AllThreads :
          /\ (op[t] = "stop" /\ op'[t] = "none" /\ Self \in registry)
                => Cardinality(registry') = Cardinality(registry) - 1
          /\ (op[t] = "stop" /\ op'[t] = "stop") => registry' = registry
          /\ (op[t] = "gbm" \/ ncalls' # ncalls) => registry' = registry
          /\ (op[t] = "new" /\ ~constructed') => registry' = registry

\* C14: a successful construction makes the registry one larger, stop() on a
\* registered instance makes it one smaller, and no step of get_best_move
\* (nor a failed construction) changes it.
C14_RegistryCount == [][C14Step]_vars

\* stop() has returned on an instance that was registered and had served a
\* get_best_move: the registry is empty again.
C14_Witness ==
    /\ pc["t1"] = "idle" /\ result["t1"].op = "stop" /\ constructed
    /\ registry = {} /\ ncalls > 0

\* The instances a sequence names.
Range(q) == {q[i] : i \in 1..Len(q)}

\* No exception has left a shutdown_all that a thread called.
NoSweepError == \A t \in AllThreads : \A r \in raised[t] : r.from # "shutdown_all"

\* C15: shutdown_all calls stop() exactly once on every instance that was
\* registered when it took its snapshot, an exception raised by one stop()
\* does not keep it from calling the others, and none leaves shutdown_all.
C15_ShutdownAllStopsEach ==
    /\ \A t \in AllThreads : \A i \in 1..Len(stack[t]) :
          (stack[t][i].fn = "shutdown_all" /\ stack[t][i].pc = "sa_loop")
             => /\ Range(stack[t][i].done) \cup stack[t][i].left = stack[t][i].snap
                /\ Len(stack[t][i].done) + Cardinality(stack[t][i].left)
                      = Cardinality(stack[t][i].snap)
    /\ \A t \in AllThreads :
          lastSweep[t].n > 0
             => /\ Range(lastSweep[t].done) = lastSweep[t].snap
                /\ Len(lastSweep[t].done) = Cardinality(lastSweep[t].snap)
    /\ NoSweepError

\* A shutdown_all has returned after a stop() raised, and it called the
\* stop() of an engine after that.
C15_Witness ==
    /\ lastSweep["t1"].n > 0 /\ lastSweep["t1"].caught > 0
    /\ Len(lastSweep["t1"].done) = 2
    /\ lastSweep["t1"].done[1] = Stub
    /\ lastSweep["t1"].done[2] \in Engines
    /\ raised["t1"] = {}

\* C16 as the specification states it: after a shutdown_all, a second one
\* raises no error, calls no stop() a second time and leaves the registry
\* empty, whatever instances were registered.
C16_SecondSweepEmpty ==
    /\ swept \cap registry = {}
    /\ \A e \in Insts : sweepCalls[e] <= 1
    /\ NoSweepError

\* C16, amended: shutdown_all removes nothing from the registry itself.  A
\* second shutdown_all raises no error; StockfishEngine instances were taken
\* out of the registry by their own stop() during the first one, so none of
\* them is stopped, told to quit or found registered a second time.  (A
\* registered Stoppable whose stop() does not unregister it stays registered
\* and has its stop() called again.)
C16_SecondSweepEngines ==
    /\ swept \cap registry \cap Engines = {}
    /\ \A e \in Engines :
          /\ sweepCalls[e] <= 1
          /\ quits[e] <= 1
          /\ (e \in swept => proc[e] = "None")
    /\ NoSweepError

\* A second shutdown_all has returned: it found the Stoppable of the first
\* one still registered and called its stop() again, and it did not find the
\* engine the first one had stopped.
C16_Witness ==
    /\ lastSweep["t1"].n = 2 /\ lastSweep["t1"].snap = {Stub}
    /\ sweepCalls[Stub] = 2
    /\ \E e \in Engines : e \in swept /\ sweepCalls[e] = 1 /\ e \notin registry

\* C17: no interleaving of register, unregister, stop and shutdown_all from
\* several threads raises an error out of a registry operation (a KeyError
\* of the set), two threads unregistering or stopping one instance included.
C17_RegistrySafe ==
    \A t \in AllThreads : \A r \in raised[t] : r.exc # "KeyError"

\* C18: when a termination signal is delivered, graceful_shutdown runs
\* shutdown_all to its end first (stop() has been called on every instance
\* of its snapshot and has left each engine's handle cleared) and only then
\* ends the process, with exit code 0.
C18_SweepThenExit ==
    /\ \A t \in AllThreads :
          At(t, "graceful_shutdown", "gs_exit")
             => /\ Top(t).ret
                /\ Range(Top(t).done) = Top(t).snap
                /\ \A e \in Top(t).snap \cap Engines : proc[e] = "None"
    /\ (exitBy = "signal")
          => (exitCode = 0 /\ \E t \in AllThreads : lastSweep[t].n > 0)

\* One signal was delivered while the server was serving: the engines were
\* told to quit, and the process has gone with exit code 0.
C18_Witness ==
    /\ phase = "exited" /\ exitBy = "signal" /\ exitCode = 0 /\ nsig = 1
    /\ exitAt = "main_serve"
    /\ \A e \in Engines : quits[e] = 1 /\ ~run[e] /\ proc[e] = "None"

\* C19: a second termination signal that arrives while the handler of the
\* first is still running changes nothing: the process exits with code 0,
\* every engine that was registered ends stopped, and no child is sent
\* `quit` more than once.
C19_RepeatedSignal ==
    (exitBy = "signal" /\ exitAt = "main_serve")
        => /\ exitCode = 0
           /\ \A e \in Engines : quits[e] <= 1
           /\ (phase = "exited" => \A e \in Engines \ fresh : proc[e] = "None")

\* C20: when the process has exited, by a signal, by a normal exit or by the
\* end of the lifespan, no child that it spawned is still running (a child
\* whose kill() request raised aside).
C20_NoChildAtExit ==
    (phase = "exited" /\ ~killFailed) => \A e \in Engines : ~run[e]

\* What the claims on the path resolution speak of: the configured path is
\* set and usable, the system locations that are usable.
ConfiguredUsable == environ.ENGINE_PATH # <<>> /\ files[environ.ENGINE_PATH] = "exec"
SystemUsable == {i \in 1..Len(SystemPaths) : files[SystemPaths[i]] = "exec"}

\* C21: _get_engine_path returns the configured ENGINE_PATH when that file
\* exists and is executable, whatever the other candidates are; otherwise
\* the first system location, in the order /usr/games, /usr/bin,
\* /usr/local/bin, that exists and is executable; otherwise only a
\* constructed fallback path that exists and is executable.
C21_FirstMatchWins ==
    resolved.kind # "none" =>
        /\ ConfiguredUsable
              => (resolved.kind = "path" /\ resolved.path = environ.ENGINE_PATH)
        /\ (~ConfiguredUsable /\ SystemUsable # {})
              => /\ resolved.kind = "path"
                 /\ \E i \in SystemUsable :
                       /\ resolved.path = SystemPaths[i]
                       /\ \A j \in 1..(i - 1) : j \notin SystemUsable
        /\ (~ConfiguredUsable /\ SystemUsable = {} /\ resolved.kind = "path")
              => /\ files[resolved.path] = "exec"
                 /\ \E o \in DetectedOs : resolved.path = FallbackPath(o)

\* An invalid ENGINE_PATH, /usr/games/stockfish missing, the two other system
\* locations usable: /usr/bin/stockfish was returned.
C21_Witness ==
    /\ environ.ENGINE_PATH = CustomPath /\ files[CustomPath] = "file"
    /\ SystemUsable = {2, 3}
    /\ resolved.kind = "path" /\ resolved.path = SystemPaths[2]

\* C22: a configured ENGINE_PATH that is missing or not executable never
\* fails the resolution at the first step: the outcome (the path, or the
\* kind of error) is the one of the system locations and the fallback alone,
\* that is of the same environment with ENGINE_PATH unset.
C22_InvalidPathFallsThrough ==
    (resolved.kind # "none" /\ environ.ENGINE_PATH # <<>> /\ ~ConfiguredUsable)
        => LET alone == GetEnginePath([environ EXCEPT !.ENGINE_PATH = <<>>],
                                      files, system)
           IN /\ resolved.kind = alone.kind
              /\ resolved.path = alone.path
              /\ resolved.text = alone.text

\* ENGINE_PATH names a file that is not executable, no system location holds
\* a binary: the fallback path of the host was returned.
C22_Witness ==
    /\ environ.ENGINE_PATH = CustomPath /\ files[CustomPath] = "file"
    /\ SystemUsable = {}
    /\ resolved.kind = "path" /\ resolved.path = FallbackPath("linux")

\* C23: when every step has failed, on a fallback file that is missing or
\* one that is not executable, the error names every candidate that was
\* tried: the configured path when one was set, each system location and
\* the constructed fallback path.
C23_ErrorNamesCandidates ==
    (resolved.kind = "error" /\ resolved.text \in {NotFound, NotExecutable})
        => /\ (environ.ENGINE_PATH # <<>> => environ.ENGINE_PATH \in resolved.names)
           /\ \A i \in 1..Len(SystemPaths) : SystemPaths[i] \in resolved.names
           /\ FallbackPath(EngineOs(environ, system)) \in resolved.names

\* C24: when neither the configured path nor a system location holds a
\* binary, ENGINE_OS is not configured and the host is none of macOS, Linux
\* and Windows, the resolution fails with "Unsupported platform"; when
\* ENGINE_OS is configured that error does not occur and the outcome is the
\* same on every host.
C24_UnsupportedPlatform ==
    resolved.kind # "none" =>
        /\ ( /\ ~ConfiguredUsable /\ SystemUsable = {}
             /\ environ.ENGINE_OS = ""
             /\ system \notin {"Darwin", "Linux", "Windows"} )
              => (resolved.kind = "error" /\ resolved.text = Unsupported)
        /\ environ.ENGINE_OS # ""
              => /\ resolved.text # Unsupported
                 /\ \A s \in Systems : GetEnginePath(environ, files, s) = resolved

\* On FreeBSD, with an invalid ENGINE_PATH and no ENGINE_OS, the resolution
\* failed on the platform.
C24_Witness ==
    /\ system = "FreeBSD" /\ environ.ENGINE_OS = ""
    /\ environ.ENGINE_PATH = CustomPath /\ ~ConfiguredUsable /\ SystemUsable = {}
    /\ resolved.kind = "error" /\ resolved.text = Unsupported

\* The tool answered in this step.
Answered(tool) == reply' # reply /\ reply'.tool = tool

\* C25: get_best_move_tool always answers with exactly one arm: the error
\* "Engine not initialized" when the handle is None, and then no engine is
\* called or changed; the move as result when the engine returns one; the
\* engine's message as error when it raises StockfishError; the fixed error
\* "Internal server error" on any other exception.
C25Step ==
    Answered("get_best_move") =>
        /\ reply'.arm \in {"result", "error"}
        /\ (reply'.arm = "result") = (reply'.error = <<>>)
        /\ globalEngine = "None"
              => /\ reply'.arm = "error" /\ reply'.error = NotInitializedMsg
                 /\ ~reply'.call.made
                 /\ UNCHANGED <<coreVars, regVars>>
        /\ globalEngine # "None"
              => /\ reply'.call \in EngineOutcomes(globalEngine)
                 /\ reply'.call.ok
                       => (reply'.arm = "result" /\ reply'.best = reply'.call.move)
                 /\ (~reply'.call.ok /\ reply'.call.type = "StockfishError")
                       => (reply'.arm = "error" /\ reply'.error = reply'.call.msg)
                 /\ (~reply'.call.ok /\ reply'.call.type # "StockfishError")
                       => (reply'.arm = "error" /\ reply'.error = InternalErrorMsg)

C25_BestMoveToolArms == [][C25Step]_vars

\* The engine raised an exception that is no StockfishError, and the tool
\* answered "Internal server error".
C25_Witness ==
    /\ reply.tool = "get_best_move" /\ reply.call.made
    /\ reply.call.type = "Exception"
    /\ reply.arm = "error" /\ reply.error = InternalErrorMsg

\* C26: validate_move_tool, get_legal_moves_tool and get_game_status_tool
\* call no engine and change neither the instance, its child nor the
\* registry, whatever the handle is; validate_move_tool answers "Invalid FEN
\* format" on an invalid FEN, also when the move is malformed, "Invalid move
\* format" on a malformed move with a valid FEN, and the legality of the move
\* otherwise.
C26Step ==
    (\E tool \in {"validate_move", "get_legal_moves", "get_game_status"} :
        Answered(tool))
        => /\ UNCHANGED <<coreVars, regVars>>
           /\ ~reply'.call.made
           /\ reply'.tool = "validate_move"
                 => IF reply'.fen = InvalidFen
                    THEN reply'.arm = "error" /\ reply'.error = InvalidFenMsg
                    ELSE IF reply'.move \in {Uci("e", "2", "e", "9"), <<>>}
                    THEN reply'.arm = "error" /\ reply'.error = InvalidMoveMsg
                    ELSE /\ reply'.arm = "result"
                         /\ reply'.legal = IsLegal(Board(reply'.fen), reply'.move)
           /\ (reply'.tool = "validate_move" /\ reply'.fen = StartingFen)
                 => /\ reply'.move = Uci("e", "2", "e", "4")
                          => (reply'.arm = "result" /\ reply'.legal)
                    /\ reply'.move = Uci("e", "1", "e", "2")
                          => (reply'.arm = "result" /\ ~reply'.legal)

C26_ToolsCallNoEngine == [][C26Step]_vars

\* validate_move_tool answered "Invalid FEN format" to an invalid FEN with a
\* malformed move, the handle being an engine whose child has died.
C26_Witness ==
    /\ reply.tool = "validate_move" /\ reply.fen = InvalidFen
    /\ reply.move = Uci("e", "2", "e", "9")
    /\ reply.error = InvalidFenMsg
    /\ globalEngine # "None" /\ ~run[globalEngine]

\* C27: get_game_status_tool classifies a valid position by the first rule
\* that applies of checkmate, stalemate, insufficient material, and
\* IN_PROGRESS otherwise; the winner is set only on CHECKMATE, to the side
\* that is not to move.
C27_GameStatusOrder ==
    (reply.tool = "get_game_status" /\ Board(reply.fen).valid)
        => LET b == Board(reply.fen)
           IN /\ reply.arm = "result"
              /\ reply.status =
                    (CASE b.checkmate -> "CHECKMATE"
                       [] ~b.checkmate /\ b.stalemate -> "STALEMATE"
                       [] ~b.checkmate /\ ~b.stalemate /\ b.insufficient -> "DRAW"
                       [] OTHER -> "IN_PROGRESS")
              /\ (reply.winner # "None") = (reply.status = "CHECKMATE")
              /\ reply.status = "CHECKMATE"
                    => /\ reply.winner \in {"WHITE", "BLACK"}
                       /\ reply.winner # b.turn

\* Black, to move, is mated on the back rank: CHECKMATE, winner WHITE.
C27_Witness ==
    /\ reply.tool = "get_game_status" /\ reply.fen = BlackMatedFen
    /\ reply.status = "CHECKMATE" /\ reply.winner = "WHITE"

\* C28: the /health endpoint always answers: "ok" with code 200 exactly when
\* an engine is set and its is_initialized() returned true; "degraded" with
\* code 503 and engine "error" when no engine is set, when is_initialized()
\* returned false and when it raised.
C28_HealthNeverFails ==
    probe # NoProbe =>
        LET ready == probe.handle # "None" /\ probe.made /\ probe.ok /\ probe.ready
        IN /\ (probe.handle = "None") = ~probe.made
           /\ ready => (probe.code = 200 /\ probe.status = "ok" /\ probe.engine = "ok")
           /\ ~ready
                 => /\ probe.code = 503 /\ probe.status = "degraded"
                    /\ probe.engine = "error"

\* is_initialized() raised, and the endpoint answered 503.
C28_Witness ==
    /\ probe.handle # "None" /\ probe.made /\ ~probe.ok
    /\ probe.code = 503 /\ probe.status = "degraded" /\ probe.engine = "error"

\* Where the main program is, "" when it has ended.
MainAt(stk) == IF stk # <<>> /\ stk[1].fn = "main" THEN stk[1].pc ELSE ""

\* C29: the lifespan constructs an engine on entry only when the handle is
\* None and reuses the handle's engine otherwise; when it has ended it has
\* called stop() exactly once, on the engine the handle referred to, whose
\* process handle is cleared, and the handle is None, so that
\* get_best_move_tool then answers "Engine not initialized".
C29Step ==
    /\ (MainAt(stack["t1"]) = "main_lifespan" /\ MainAt(stack'["t1"]) # "main_lifespan")
          => IF globalEngine = "None"
             THEN /\ MainAt(stack'["t1"]) = "main_lifespan_done"
                  /\ Top("t1")' = Frame("new", "new_spawn", Top("t1")'.inst)
                  /\ Top("t1")'.inst \in fresh
             ELSE /\ MainAt(stack'["t1"]) = "main_serve"
                  /\ UNCHANGED <<globalEngine, fresh, proc, run, registry>>
    /\ (MainAt(stack["t1"]) = "main_serve" /\ MainAt(stack'["t1"]) = "main_stopped")
          => /\ globalEngine # "None"
             /\ Top("t1")' = Frame("stop", "stop_test", globalEngine)
    /\ MainAt(stack'["t1"]) = "main_done"
          => /\ globalEngine' = "None"
             /\ \E e \in Engines :
                   /\ lifeStops' = [x \in Insts |-> IF x = e THEN 1 ELSE 0]
                   /\ proc'[e] = "None"
             /\ Answered("get_best_move")
                   => (reply'.arm = "error" /\ reply'.error = NotInitializedMsg)

C29_LifespanEngine == [][C29Step]_vars

\* The lifespan reused the engine of the start-up and has ended; the tool
\* answered "Engine not initialized".
C29_Witness ==
    /\ MainAt(stack["t1"]) = "main_done" /\ phase = "running"
    /\ lifeStops["e1"] = 1 /\ "e2" \in fresh
    /\ reply.tool = "get_best_move" /\ reply.error = NotInitializedMsg

\* The read loop of thread t ends in this step because its deadline passed.
DeadlineStep(t) == pc[t] \in ReadPcs /\ ended'[t] = "deadline"

\* The caller of the read loop of thread t fails in this step with error e.
FailsWith(t, e) ==
    IF op[t] = "new"
    THEN exc'[t] = InitWrap(e) /\ pc'[t] = "stop_begin"
    ELSE result'[t] = Err("gbm", GbmWrap(e), call[t]) /\ pc'[t] = "idle"

\* What the caller raises when the list it is given has no line with the
\* prefix it waited for.
MissingLine(p) ==
    CASE p = "init_uci_read" -> <<"Failed to initialize UCI mode">>
      [] p = "init_ready_read" -> <<"Engine not responding to isready command">>
      [] OTHER -> NoBestMove

\* C30, as claimed: whenever the deadline of _read_response passes before a
\* line starting with the prefix was read, the read fails with the timeout
\* error, also when other lines were read.
C30_TimeoutWheneverDeadline ==
    [][\A t \in AllThreads :
          DeadlineStep(t) => FailsWith(t, ReadWrap(TimeoutMsg))]_vars

\* C30, amended: the read fails with the timeout error when the deadline
\* passes before any line was read; when lines were read, none of them
\* starting with the prefix, it returns them and the caller fails on the
\* missing line; a read that ends before its deadline returns a list whose
\* last line, and no other, starts with the prefix.
C30Step ==
    \A t \in AllThreads :
        /\ pc[t] \in ReadPcs => ~AnyStartsWith(responses[t], Until(pc[t]))
        /\ DeadlineStep(t)
              => IF responses[t] = <<>>
                 THEN FailsWith(t, ReadWrap(TimeoutMsg))
                 ELSE FailsWith(t, MissingLine(pc[t]))
        /\ (pc[t] \in ReadPcs /\ ended'[t] = "prefix")
              => /\ responses'[t] # <<>>
                 /\ StartsWith(responses'[t][Len(responses'[t])], Until(pc[t]))
                 /\ ~AnyStartsWith(responses[t], Until(pc[t]))

C30_TimeoutOnlyWhenNothingRead == [][C30Step]_vars

\* A get_best_move whose read ended at its deadline with nothing read has
\* failed with the timeout error.
C30_Witness ==
    /\ pc["t1"] = "idle" /\ result["t1"].op = "gbm" /\ ended["t1"] = "deadline"
    /\ responses["t1"] = <<>>
    /\ result["t1"].err = GbmWrap(ReadWrap(TimeoutMsg))

\* The read loop of thread t ends in this step.
ReadEnds(t) == pc[t] \in ReadPcs /\ pc'[t] \notin ReadPcs

\* The child has exited and nothing it wrote is left to read: no line with
\* the prefix can come any more.
ChildGone == ~alive /\ out = <<>>

\* C31: when the child has exited before a line starting with the awaited
\* prefix was read, the read fails with the engine-terminated error, not
\* with a timeout and not with a partial list, also when the exit has left
\* the child's stdout at end-of-file, which is the case stated here.
C31_ExitEndsRead ==
    [][\A t \in AllThreads :
          (ReadEnds(t) /\ ChildGone /\ eof) => FailsWith(t, ReadWrap(Terminated))]_vars

\* _read_response of thread t returns a list in this step: it has read the
\* line it waited for, or its deadline has passed with lines read.
ReturnsList(t) ==
    /\ ReadEnds(t)
    /\ \/ ended'[t] = "prefix"
       \/ ended'[t] = "deadline" /\ responses[t] # <<>>

\* C32: a list _read_response returns holds the lines of the child's output
\* in the order they were written, from the line after the last one an
\* earlier read returned up to the last line taken from the pipe; when the
\* awaited line was read it is the last of the list and the only one with
\* the prefix; the lines not yet read follow in the pipe.  So the lists of
\* successive reads are consecutive segments of the child's output.
C32Step ==
    \A t \in AllThreads :
        ReturnsList(t) =>
            LET rs == responses'[t] IN
            /\ rs # <<>>
            /\ \A i \in 1..Len(rs) : rs[i].k = ndeliv + i /\ rs[i].toks # <<>>
            /\ nread' = ndeliv + Len(rs)
            /\ \A i \in 1..Len(out') : out'[i].k = nread' + i
            /\ ended'[t] = "prefix"
                  => /\ StartsWith(rs[Len(rs)], Until(pc[t]))
                     /\ \A i \in 1..(Len(rs) - 1) : ~StartsWith(rs[i], Until(pc[t]))

C33_EveryCallEnds ==
    \A t \in AllThreads : (op[t] \in {"new", "gbm"}) ~> (op[t] = "none")

\* C34: stop() escalates in order: a force-kill is sent to the child only
\* after a termination request was sent to it.
C34_KillAfterTerminate ==
    \A i \in 1..Len(reqs) :
        reqs[i] = "kill" => \E j \in 1..(i - 1) : reqs[j] = "terminate"

\* A line of the six kinds the wrapper may write to the child.
IsUciCommand(c) ==
    \/ c.toks = <<"uci">>
    \/ c.toks = <<"isready">>
    \/ c.toks = <<"quit">>
    \/ Len(c.toks) = 5 /\ c.toks[1] = "setoption" /\ c.toks[2] = "name"
                       /\ c.toks[4] = "value"
    \/ Len(c.toks) >= 8 /\ c.toks[1] = "position" /\ c.toks[2] = "fen"
                        /\ (Len(c.toks) > 8 => c.toks[9] = "moves" /\ Len(c.toks) > 9)
    \/ Len(c.toks) = 3 /\ c.toks[1] = "go" /\ c.toks[2] = "movetime"

C36_HooksFirstAndOnce ==
    /\ \A e \in Engines : (run[e] \/ proc[e] = "Popen") => hooks >= 1
    /\ hooks <= 1

\* The engine of setup_environment runs, under hooks installed once.
C36_Witness ==
    /\ run["e1"] /\ proc["e1"] = "Popen" /\ "e1" \in registry
    /\ hooks = 1 /\ phase = "running"

\* get_best_move is called by thread t in this step.
GbmCalled(t) == pc[t] = "idle" /\ call'[t] # call[t]

\* The instance is Stopped: it has no process handle, or its child has exited.
Stopped == process = "None" \/ ~alive

\* C37: a get_best_move called once the child has exited fails at once with
\* "Engine not initialized or not running" and writes nothing to the child's
\* stdin; a constructed instance that is Stopped stays Stopped, whatever is
\* called on it.
C37Step ==
    /\ \A t \in AllThreads :
          (GbmCalled(t) /\ Stopped)
              => /\ sent' = sent
                 /\ pc'[t] = "idle"
                 /\ result'[t] = Err("gbm", NotInitialized, call'[t])
    /\ (constructed /\ Stopped) => Stopped'

C37_StoppedIsTerminal == [][C37Step]_vars

\* The child has exited on its own after a first exchange, and a second
\* get_best_move has failed with nothing written for it.
C37_Witness ==
    /\ pc["t1"] = "idle" /\ result["t1"] = Err("gbm", NotInitialized, 2)
    /\ process = "Popen" /\ ~alive
    /\ \E i \in 1..Len(sent) : sent[i].id = 1
    /\ \A i \in 1..Len(sent) : sent[i].id # 2 /\ sent[i].toks # <<"quit">>

\* C38: the service holds no orphaned engine: at most one engine child runs
\* at any time, and while the lifespan serves, every engine whose child runs
\* is the one the handle _engine refers to.
C38_NoOrphanEngine ==
    /\ Cardinality({e \in Engines : run[e]}) <= 1
    /\ MainAt(stack["t1"]) = "main_serve"
          => \A e \in Engines : run[e] => globalEngine = e

\* The first part of every message that engine_wrapper.py raises as a
\* StockfishError; the texts of built-in exceptions are not among them.
StockfishTexts ==
    {NotRunning[1], SendFailed[1], NotInitialized[1], NoBestMove[1],
     ReadWrap(<<>>)[1], GbmWrap(<<>>)[1], InitWrap(<<>>)[1],
     "Failed to initialize UCI mode", "Engine not responding to isready command"}

IsStockfishError(e) == e # <<>> /\ e[1] \in StockfishTexts

\* C39: every failure of get_best_move reaches its caller as a
\* StockfishError, whatever was raised inside it.
C39_OnlyStockfishError ==
    \A t \in AllThreads :
        (result[t].op = "gbm" /\ ~result[t].ok) => IsStockfishError(result[t].err)

\* A `bestmove` line without a second token has made split()[1] fail.
C39_Witness ==
    \E t \in AllThreads :
        /\ result[t].op = "gbm" /\ ~result[t].ok
        /\ Contains(result[t].err, "list index out of range")

====
